---- MODULE Spec2Model ----
(***************************************************************************)
(* Model of the consolidation pipeline of ai-news:                         *)
(*   src/src/deduplicator.py     normalize_title, similarity_score,        *)
(*                               is_duplicate, deduplicate_items,          *)
(*                               deduplicate_across_sources                *)
(*   src/src/relevance_filter.py is_filtering_enabled, filter_by_relevance *)
(*   src/src/categorizer.py      categorize, categorize_item(s)            *)
(*   src/src/policy_categorizer.py  categorize_policy,                     *)
(*                               categorize_policy_item(s)                 *)
(*   src/src/news_fetcher.py     NewsFetcher.calculate_trending_score,     *)
(*                               search_news, fetch_trending_articles      *)
(*   src/src/youtube_fetcher.py  YouTubeFetcher.calculate_trending_score,  *)
(*                               fetch_trending_videos                     *)
(*   src/src/blog_fetcher.py     BlogFetcher.fetch_all_blog_posts          *)
(*   src/src/main.py             main and its fetch functions              *)
(*                                                                         *)
(* Strings are sequences of one-character strings.  An optional dict key   *)
(* is a sequence of length 0 (key absent) or 1 (key present).  Items are   *)
(* dicts held by reference: the heap `items` maps a reference (a position  *)
(* of the list the caller built) to the dict's current content, and every  *)
(* list of items is a sequence of references.                              *)
(***************************************************************************)
EXTENDS Integers, Sequences, FiniteSets, TLC

VARIABLES
    items,       \* heap: reference -> item dict (title, source, score, also_on)
    threshold,   \* <<num, den>>: the threshold argument num/den
    input,       \* the list the last deduplicate_items call received
    groups,      \* the groups of the last call, members in grouping order
    result,      \* the list the last call returned
    prevResult,  \* the list the call before the last returned
    prevGroups,  \* the groups of the call before the last
    runs,        \* number of deduplicate_items calls made
    f_items,     \* filter_by_relevance: the items argument
    f_env,       \* LLM_FILTER_ENABLED == "true", HAS_OPENAI, OPENAI_API_KEY set
    f_pc,        \* "start", "calling", "done"
    f_calls,     \* outbound calls made to the text-generation service
    f_reply,     \* what the service did: kind "none" | "raise" | "content"
    f_result,    \* the list filter_by_relevance returned
    c_kind,      \* "general" (categorize) or "policy" (categorize_policy)
    c_title,     \* the title argument, as its sequence of words
    c_hint,      \* categorize: the content_type argument (optional)
    c_content,   \* categorize_policy: the content argument (optional)
    c_label,     \* the label returned (None before the call)
    s_kind,      \* "article" (NewsFetcher) or "video" (YouTubeFetcher)
    s_published, \* the item's publish timestamp: its form and its hour
    s_source,    \* article: the source name
    s_stats,     \* video: views, likes, comments
    s_now,       \* the present hour
    s_out,       \* the latest outcome of the scorer and its hour (optional)
    s_prev,      \* the outcome before that (optional)
    r_pc,        \* main: the step the run is at
    r_args,      \* the command line switches
    r_filtering, \* is_filtering_enabled(), --no-filter applied
    r_config,    \* get_config(): display limits and pool size
    r_lists,     \* videos, articles, releases, blogs
    r_failed,    \* the sources whose collaborator raised
    r_queried,   \* the sources queried so far, in order
    r_trace,     \* the stages run on the article and blog pools, in order
    r_filtered,  \* the lists the relevance filter returned
    a_lists,     \* deduplicate_across_sources: the source lists passed
    ci_kind,     \* categorize_items ("general") or categorize_policy_items ("policy")
    ci_heap,     \* the item dictionaries, by reference
    ci_before,   \* the item dictionaries as they were before the call
    ci_list,     \* the list of references passed
    ci_form,     \* "none" before the call, then "item" or "list"
    ci_out,      \* the references returned
    k_kind,      \* the fetcher: "articles", "videos" or "blogs"
    k_feed,      \* the entries the feeds and searches hold, in order
    k_days_back, \* days_back
    k_top_n,     \* top_n
    k_now,       \* the hour of the run
    k_scores,    \* trending_score of the entries scored
    k_all,       \* all_articles, all_videos or all_posts after the sort
    k_out,       \* the list returned
    k_pc         \* "start" or "done"

dedupVars == <<items, threshold, input, groups, result, prevResult, prevGroups, runs>>
filterVars == <<f_items, f_env, f_pc, f_calls, f_reply, f_result>>
acrossVars == <<a_lists>>
rankVars == <<k_kind, k_feed, k_days_back, k_top_n, k_now, k_scores, k_all, k_out, k_pc>>
itemVars == <<ci_kind, ci_heap, ci_before, ci_list, ci_form, ci_out>>
runVars == <<r_pc, r_args, r_filtering, r_config, r_lists, r_failed, r_queried,
            r_trace, r_filtered>>
scoreVars == <<s_kind, s_published, s_source, s_stats, s_now, s_out, s_prev>>
catVars == <<c_kind, c_title, c_hint, c_content, c_label>>
vars == <<items, threshold, input, groups, result, prevResult, prevGroups, runs,
          f_items, f_env, f_pc, f_calls, f_reply, f_result,
          c_kind, c_title, c_hint, c_content, c_label,
          s_kind, s_published, s_source, s_stats, s_now, s_out, s_prev,
          r_pc, r_args, r_filtering, r_config, r_lists, r_failed, r_queried,
          r_trace, r_filtered, a_lists,
          ci_kind, ci_heap, ci_before, ci_list, ci_form, ci_out,
          k_kind, k_feed, k_days_back, k_top_n, k_now, k_scores, k_all, k_out, k_pc>>

-----------------------------------------------------------------------------
(* Bounds *)

MaxItems == 3
MaxReplyLen == 4
MaxTitleWords == 2
MaxContentWords == 1

-----------------------------------------------------------------------------
(* Generic sequence helpers *)

None == <<>>
Some(x) == <<x>>

Range(s) == {s[i] : i \in 1..Len(s)}

RECURSIVE Concat(_)
Concat(ss) == IF ss = <<>> THEN <<>> ELSE Head(ss) \o Concat(Tail(ss))

SeqsUpTo(S, n) == UNION {[1..k -> S] : k \in 0..n}

\* the members of a set of integers, ascending
RECURSIVE Ascending(_)
Ascending(S) ==
    IF S = {} THEN <<>>
    ELSE LET m == CHOOSE x \in S : \A y \in S : x <= y
         IN <<m>> \o Ascending(S \ {m})

-----------------------------------------------------------------------------
(* normalize_title *)

UpperLetters == <<"A","B","C","D","E","F","G","H","I","J","K","L","M",
                  "N","O","P","Q","R","S","T","U","V","W","X","Y","Z">>
LowerLetters == <<"a","b","c","d","e","f","g","h","i","j","k","l","m",
                  "n","o","p","q","r","s","t","u","v","w","x","y","z">>

\* the lower-case letter of every upper-case letter
LowerOf == [c \in Range(UpperLetters) |->
               LowerLetters[CHOOSE k \in 1..26 : UpperLetters[k] = c]]

LowerAscii(c) == IF c \in DOMAIN LowerOf THEN LowerOf[c] ELSE c

Digits == {"0", "1", "2", "3", "4", "5", "6", "7", "8", "9"}

Lower(c) == LowerAscii(c)

\* the characters \w matches: letters, digits and the underscore
WordChars == Range(UpperLetters) \cup Range(LowerLetters) \cup Digits \cup {"_"}
SpaceChars == {" "}

IsSpace(c) == c \in SpaceChars
IsPunct(c) == c \notin WordChars /\ c \notin SpaceChars

\* str.lower()
LowerStr(s) == [k \in 1..Len(s) |-> Lower(s[k])]

\* re.sub(r'[^\w\s]', ' ', s)
PunctToSpace(s) == [k \in 1..Len(s) |-> IF IsPunct(s[k]) THEN " " ELSE s[k]]

\* str.split(): the maximal runs of non-whitespace characters
RECURSIVE SplitWs(_, _)
SplitWs(s, cur) ==
    IF s = <<>> THEN (IF cur = <<>> THEN <<>> ELSE <<cur>>)
    ELSE IF IsSpace(Head(s))
         THEN (IF cur = <<>> THEN <<>> ELSE <<cur>>) \o SplitWs(Tail(s), <<>>)
         ELSE SplitWs(Tail(s), Append(cur, Head(s)))

\* ' '.join(words)
RECURSIVE JoinSp(_)
JoinSp(ws) ==
    IF ws = <<>> THEN <<>>
    ELSE IF Len(ws) = 1 THEN ws[1]
    ELSE ws[1] \o <<" ">> \o JoinSp(Tail(ws))

\* re.sub(r'\s+', ' ', s)
RECURSIVE CollapseWs(_)
CollapseWs(s) ==
    IF s = <<>> THEN <<>>
    ELSE IF IsSpace(Head(s))
         THEN IF Len(s) > 1 /\ IsSpace(s[2])
              THEN CollapseWs(Tail(s))
              ELSE <<" ">> \o CollapseWs(Tail(s))
         ELSE <<Head(s)>> \o CollapseWs(Tail(s))

\* str.strip()
RECURSIVE LStrip(_)
LStrip(s) == IF s # <<>> /\ IsSpace(Head(s)) THEN LStrip(Tail(s)) ELSE s
RECURSIVE RStrip(_)
RStrip(s) ==
    IF s # <<>> /\ IsSpace(s[Len(s)]) THEN RStrip(SubSeq(s, 1, Len(s) - 1)) ELSE s
Strip(s) == RStrip(LStrip(s))

filler_words == {
    <<"t","h","e">>, <<"a">>, <<"a","n">>, <<"i","s">>, <<"a","r","e">>,
    <<"w","a","s">>, <<"w","e","r","e">>, <<"b","e">>, <<"b","e","e","n">>,
    <<"t","o">>, <<"o","f">>, <<"a","n","d">>, <<"o","r">>, <<"f","o","r">>,
    <<"i","n">>, <<"o","n">>, <<"a","t">>, <<"b","y">>,
    <<"w","i","t","h">>, <<"a","b","o","u","t">>, <<"h","o","w">>,
    <<"w","h","a","t">>, <<"w","h","y">>, <<"w","h","e","n">>,
    <<"w","h","e","r","e">>,
    <<"t","h","i","s">>, <<"t","h","a","t">>, <<"t","h","e","s","e">>,
    <<"t","h","o","s","e">>, <<"i","t">>, <<"i","t","s">>,
    <<"n","e","w">>, <<"j","u","s","t">>, <<"n","o","w">>,
    <<"h","e","r","e">>, <<"h","e","r","e","s">> }

normalize_title(title) ==
    IF title = <<>> THEN <<>>
    ELSE LET words == SplitWs(PunctToSpace(LowerStr(title)), <<>>)
             kept == SelectSeq(words, LAMBDA w : w \notin filler_words)
         IN Strip(CollapseWs(JoinSp(kept)))

-----------------------------------------------------------------------------
(* difflib.SequenceMatcher(None, a, b).ratio(), for len(b) < 200 (no        *)
(* autojunk): the matching characters M are counted over the blocks found   *)
(* by find_longest_match applied recursively left and right of each block.  *)

\* a[i..i+k-1] = b[j..j+k-1]
BlockAt(a, b, i, j, k) == \A d \in 0..(k - 1) : a[i + d] = b[j + d]

\* find_longest_match(alo, ahi, blo, bhi) over the 1-based closed ranges
\* alo..ahi, blo..bhi: the longest block; of those the earliest in a; of
\* those the earliest in b.  <<i, j, 0>> when there is none.
find_longest_match(a, b, alo, ahi, blo, bhi) ==
    LET cands == {t \in (alo..ahi) \X (blo..bhi) \X (1..(ahi - alo + 1)) :
                    /\ t[1] + t[3] - 1 <= ahi
                    /\ t[2] + t[3] - 1 <= bhi
                    /\ BlockAt(a, b, t[1], t[2], t[3])}
    IN IF cands = {} THEN <<alo, blo, 0>>
       ELSE CHOOSE t \in cands : \A u \in cands :
                \/ t[3] > u[3]
                \/ t[3] = u[3] /\ t[1] < u[1]
                \/ t[3] = u[3] /\ t[1] = u[1] /\ t[2] <= u[2]

RECURSIVE MatchCount(_, _, _, _, _, _)
MatchCount(a, b, alo, ahi, blo, bhi) ==
    IF alo > ahi \/ blo > bhi THEN 0
    ELSE LET m == find_longest_match(a, b, alo, ahi, blo, bhi)
         IN IF m[3] = 0 THEN 0
            ELSE m[3]
                 + MatchCount(a, b, alo, m[1] - 1, blo, m[2] - 1)
                 + MatchCount(a, b, m[1] + m[3], ahi, m[2] + m[3], bhi)

\* ratio() as the fraction <<2*M, len(a)+len(b)>>; 1.0 when both are empty
ratio(a, b) ==
    IF Len(a) + Len(b) = 0 THEN <<1, 1>>
    ELSE <<2 * MatchCount(a, b, 1, Len(a), 1, Len(b)), Len(a) + Len(b)>>

\* Variant: the test for an empty normalized title is missing.
similarity_score_NoEmptyCheck(title1, title2) ==
    ratio(normalize_title(title1), normalize_title(title2))

\* similarity_score as a fraction <<num, den>>
similarity_score(title1, title2) ==
    LET norm1 == normalize_title(title1)
        norm2 == normalize_title(title2)
    IN IF norm1 = <<>> \/ norm2 = <<>> THEN <<0, 1>>
       ELSE ratio(norm1, norm2)

\* p >= q for fractions with positive denominators
FracGeq(p, q) == p[1] * q[2] >= q[1] * p[2]

is_duplicate(title1, title2, th) == FracGeq(similarity_score(title1, title2), th)

-----------------------------------------------------------------------------
(* deduplicate_items *)

\* The inputs the items are drawn from.
Titles == { <<"b","c">>, <<"b","c","d">>, <<"c","d">> }
Sources == {"", "x", "y"}
Scores == {None, Some(1)}
Thresholds == { <<4, 5>>, <<1, 1>> }

Item == [title : Titles, source : Sources, score : Scores, also_on : {None}]

\* x.get(score_key, 0)
ScoreOf(it) == IF it.score = None THEN 0 ELSE it.score[1]

\* Variant: the inner loop looks at the next position only.
Joiners_NextOnly(heap, its, th, i, used) ==
    Ascending({j \in 1..Len(its) :
                 /\ j = i + 1
                 /\ j \notin used
                 /\ is_duplicate(heap[its[i]].title, heap[its[j]].title, th)})

\* Variant: the inner loop does not skip the positions already used.
Joiners_NoUsedCheck(heap, its, th, i, used) ==
    Ascending({j \in 1..Len(its) :
                 /\ j # i
                 /\ is_duplicate(heap[its[i]].title, heap[its[j]].title, th)})

\* The inner loop, lines 139-148: the positions j of `its`, ascending, that
\* are not used and whose title is a duplicate of the title at position i.
Joiners(heap, its, th, i, used) ==
    Ascending({j \in 1..Len(its) :
                 /\ j \notin used
                 /\ is_duplicate(heap[its[i]].title, heap[its[j]].title, th)})

\* The outer loop, lines 132-150, from position i on; a group is the
\* sequence of list positions in the order they were appended.
RECURSIVE GroupFrom(_, _, _, _, _)
GroupFrom(heap, its, th, i, used) ==
    IF i > Len(its) THEN <<>>
    ELSE IF i \in used THEN GroupFrom(heap, its, th, i + 1, used)
    ELSE LET group == <<i>> \o Joiners(heap, its, th, i, used \cup {i})
         IN <<group>> \o GroupFrom(heap, its, th, i + 1, used \cup Range(group))

\* Variant: each new group is put in front of the groups found so far.
GroupPositions_Prepend(heap, its, th) ==
    LET gp == GroupFrom(heap, its, th, 1, {})
    IN [g \in 1..Len(gp) |-> gp[Len(gp) + 1 - g]]

GroupPositions(heap, its, th) == GroupFrom(heap, its, th, 1, {})

\* Variant: an unstable descending sort (x goes before the elements whose
\* key equals its key).
RECURSIVE InsertDesc_Unstable(_, _, _)
InsertDesc_Unstable(heap, sorted, x) ==
    IF sorted = <<>> THEN <<x>>
    ELSE IF ScoreOf(heap[Head(sorted)]) > ScoreOf(heap[x])
         THEN <<Head(sorted)>> \o InsertDesc_Unstable(heap, Tail(sorted), x)
         ELSE <<x>> \o sorted

\* list.sort(key=..., reverse=True) is stable: insert x after every element
\* whose key is >= x's key.
RECURSIVE InsertDesc(_, _, _)
InsertDesc(heap, sorted, x) ==
    IF sorted = <<>> THEN <<x>>
    ELSE IF ScoreOf(heap[Head(sorted)]) >= ScoreOf(heap[x])
         THEN <<Head(sorted)>> \o InsertDesc(heap, Tail(sorted), x)
         ELSE <<x>> \o sorted

RECURSIVE SortDesc(_, _)
SortDesc(heap, g) ==
    IF g = <<>> THEN <<>>
    ELSE InsertDesc(heap, SortDesc(heap, SubSeq(g, 1, Len(g) - 1)), g[Len(g)])

\* line 159: the group (a sequence of references) after group.sort
SortedGroup(heap, g) == IF Len(g) = 1 THEN g ELSE SortDesc(heap, g)

\* lines 155-160
Best(heap, g) == SortedGroup(heap, g)[1]

\* line 163: the non-empty sources of the sorted group
GroupSources(heap, g) ==
    LET sg == SortedGroup(heap, g)
        srcs == [k \in 1..Len(sg) |-> heap[sg[k]].source]
    IN SelectSeq(srcs, LAMBDA s : s # "")

\* line 165
AlsoOnOf(heap, g) ==
    SelectSeq(GroupSources(heap, g), LAMBDA s : s # heap[Best(heap, g)].source)

\* Variant: also_on is written as soon as one member carries a source.
RECURSIVE Annotate_OneSource(_, _)
Annotate_OneSource(heap, gs) ==
    IF gs = <<>> THEN heap
    ELSE LET g == Head(gs)
             h2 == IF Len(g) > 1 /\ Len(GroupSources(heap, g)) > 0
                   THEN [heap EXCEPT ![Best(heap, g)].also_on =
                                         Some(AlsoOnOf(heap, g))]
                   ELSE heap
         IN Annotate_OneSource(h2, Tail(gs))

\* lines 153-167 applied to every group: the heap after the writes to also_on
RECURSIVE Annotate(_, _)
Annotate(heap, gs) ==
    IF gs = <<>> THEN heap
    ELSE LET g == Head(gs)
             h2 == IF Len(g) > 1 /\ Len(GroupSources(heap, g)) > 1
                   THEN [heap EXCEPT ![Best(heap, g)].also_on =
                                         Some(AlsoOnOf(heap, g))]
                   ELSE heap
         IN Annotate(h2, Tail(gs))

\* The groups of deduplicate_items(its, th) as sequences of references
RefGroups(heap, its, th) ==
    LET gp == GroupPositions(heap, its, th)
    IN [g \in 1..Len(gp) |-> [k \in 1..Len(gp[g]) |-> its[gp[g][k]]]]

\* deduplicate_items(its, th): groups formed, list returned, heap afterwards
deduplicate_items(heap, its, th) ==
    IF its = <<>>
    THEN [groups |-> <<>>, result |-> <<>>, heap |-> heap]
    ELSE LET gs == RefGroups(heap, its, th)
         IN [groups |-> gs,
             result |-> [g \in 1..Len(gs) |-> Best(heap, gs[g])],
             heap   |-> Annotate(heap, gs)]

InitDedupVars ==
    /\ items \in SeqsUpTo(Item, MaxItems)
    /\ threshold \in Thresholds
    /\ input = <<>>
    /\ groups = <<>>
    /\ result = <<>>
    /\ prevResult = <<>>
    /\ prevGroups = <<>>
    /\ runs = 0

\* The caller deduplicates the list it built.
Deduplicate ==
    /\ runs = 0
    /\ \E r \in {deduplicate_items(items, [k \in 1..Len(items) |-> k], threshold)} :
          /\ input' = [k \in 1..Len(items) |-> k]
          /\ groups' = r.groups
          /\ result' = r.result
          /\ items' = r.heap
    /\ prevResult' = result
    /\ prevGroups' = groups
    /\ runs' = 1
    /\ UNCHANGED threshold
    /\ UNCHANGED filterVars
    /\ UNCHANGED catVars
    /\ UNCHANGED scoreVars
    /\ UNCHANGED runVars
    /\ UNCHANGED acrossVars
    /\ UNCHANGED itemVars
    /\ UNCHANGED rankVars

\* The caller deduplicates the list the previous call returned.
DeduplicateAgain ==
    /\ runs = 1
    /\ \E r \in {deduplicate_items(items, result, threshold)} :
          /\ input' = result
          /\ groups' = r.groups
          /\ result' = r.result
          /\ items' = r.heap
    /\ prevResult' = result
    /\ prevGroups' = groups
    /\ runs' = 2
    /\ UNCHANGED threshold
    /\ UNCHANGED filterVars
    /\ UNCHANGED catVars
    /\ UNCHANGED scoreVars
    /\ UNCHANGED runVars
    /\ UNCHANGED acrossVars
    /\ UNCHANGED itemVars
    /\ UNCHANGED rankVars

NoStats == [views |-> 0, likes |-> 0, comments |-> 0]

IdleScoreVars ==
    /\ s_kind = "article"
    /\ s_published = [form |-> "absent", at |-> 0]
    /\ s_source = <<>>
    /\ s_stats = NoStats
    /\ s_now = 0
    /\ s_out = None
    /\ s_prev = None

IdleRunVars ==
    /\ r_pc = "idle"
    /\ r_args = [videos |-> FALSE, articles |-> FALSE, no_releases |-> FALSE, no_blogs |-> FALSE]
    /\ r_filtering = FALSE
    /\ r_config = [top_articles |-> 0, top_blogs |-> 0, fetch_pool_size |-> 1]
    /\ r_lists = [videos |-> <<>>, articles |-> <<>>, releases |-> <<>>, blogs |-> <<>>]
    /\ r_failed = {}
    /\ r_queried = <<>>
    /\ r_trace = <<>>
    /\ r_filtered = [articles |-> <<>>, blogs |-> <<>>]

IdleAcrossVars == a_lists = <<>>

IdleRankVars ==
    /\ k_kind = "articles"
    /\ k_feed = <<>>
    /\ k_days_back = 1
    /\ k_top_n = 0
    /\ k_now = 0
    /\ k_scores = <<>>
    /\ k_all = <<>>
    /\ k_out = <<>>
    /\ k_pc = "idle"

IdleItemVars ==
    /\ ci_kind = "general"
    /\ ci_heap = <<>>
    /\ ci_before = <<>>
    /\ ci_list = <<>>
    /\ ci_form = "none"
    /\ ci_out = <<>>

IdleCatVars ==
    /\ c_kind = "general"
    /\ c_title = <<>>
    /\ c_hint = None
    /\ c_content = None
    /\ c_label = None

IdleFilterVars ==
    /\ f_items = <<>>
    /\ f_env = [enabled |-> TRUE, has_openai |-> TRUE, api_key |-> TRUE]
    /\ f_pc = "done"
    /\ f_calls = 0
    /\ f_reply = [kind |-> "none", content |-> <<>>]
    /\ f_result = <<>>

InitDedup == InitDedupVars /\ IdleFilterVars /\ IdleCatVars /\ IdleScoreVars /\ IdleRunVars /\ IdleAcrossVars /\ IdleItemVars /\ IdleRankVars
NextDedup == Deduplicate \/ DeduplicateAgain
SpecDedup == InitDedup /\ [][NextDedup]_vars

\* Titles that normalize to the empty string (empty, blank, punctuation,
\* stop words only) beside titles that do not, and thresholds from 0 up
EdgeTitles == { <<>>, <<" ">>, <<"!">>, <<"T","h","e">>, <<"b","c">>,
                <<"T","h","e"," ","b","c","!">> }
EdgeThresholds == { <<0, 1>>, <<1, 100>>, <<4, 5>> }

EdgeItem == [title : EdgeTitles, source : {"x"}, score : {None}, also_on : {None}]

InitDedupEdge ==
    /\ items \in SeqsUpTo(EdgeItem, MaxItems)
    /\ threshold \in EdgeThresholds
    /\ input = <<>>
    /\ groups = <<>>
    /\ result = <<>>
    /\ prevResult = <<>>
    /\ prevGroups = <<>>
    /\ runs = 0
    /\ IdleFilterVars /\ IdleCatVars /\ IdleScoreVars /\ IdleRunVars /\ IdleAcrossVars /\ IdleItemVars /\ IdleRankVars

SpecDedupEdge == InitDedupEdge /\ [][NextDedup]_vars

\* The items of the end-to-end example of the specification, the first, second
\* and last of the test items of main()
TitleTechCrunch ==
    <<"C","u","r","s","o","r"," ","A","I"," ","r","a","i","s","e","s"," ",
      "$","1","0","0","M"," ","i","n"," ","S","e","r","i","e","s"," ","B",
      " ","f","u","n","d","i","n","g">>
TitleTheVerge ==
    <<"C","u","r","s","o","r"," ","r","a","i","s","e","s"," ","$","1","0",
      "0"," ","m","i","l","l","i","o","n"," ","i","n"," ","S","e","r","i",
      "e","s"," ","B">>
TitleGoogle ==
    <<"G","o","o","g","l","e"," ","a","n","n","o","u","n","c","e","s"," ",
      "n","e","w"," ","A","I"," ","f","e","a","t","u","r","e","s">>

ItemTechCrunch ==
    [title |-> TitleTechCrunch, source |-> "TechCrunch", score |-> Some(150), also_on |-> None]
ItemTheVerge ==
    [title |-> TitleTheVerge, source |-> "The Verge", score |-> Some(120), also_on |-> None]
ItemGoogle ==
    [title |-> TitleGoogle, source |-> "Google Blog", score |-> Some(200), also_on |-> None]

ExampleItems == <<ItemTechCrunch, ItemTheVerge, ItemGoogle>>

\* the default threshold 0.8, and 0.75 and 1.0 beside it
ExampleThresholds == { <<4, 5>>, <<3, 4>>, <<1, 1>> }

\* the caller's list: the example items, or any list made of them
InitDedupExample ==
    /\ items \in {ExampleItems} \cup SeqsUpTo(Range(ExampleItems), MaxItems)
    /\ threshold \in ExampleThresholds
    /\ input = <<>>
    /\ groups = <<>>
    /\ result = <<>>
    /\ prevResult = <<>>
    /\ prevGroups = <<>>
    /\ runs = 0
    /\ IdleFilterVars /\ IdleCatVars /\ IdleScoreVars /\ IdleRunVars /\ IdleAcrossVars /\ IdleItemVars /\ IdleRankVars

SpecDedupExample == InitDedupExample /\ [][NextDedup]_vars

-----------------------------------------------------------------------------
(* filter_by_relevance *)

\* os.getenv("LLM_FILTER_ENABLED", "true"): None when the variable is unset
EnabledValues == {None, Some("true"), Some("True"), Some("false"), Some("1")}

\* os.getenv("OPENAI_API_KEY")
ApiKeyValues == {None, Some(""), Some("sk")}

LowerWord(v) == IF v \in {"True", "TRUE"} THEN "true" ELSE v

\* is_filtering_enabled()
is_filtering_enabled(env) ==
    LowerWord(IF env.enabled = None THEN "true" ELSE env.enabled[1]) = "true"

\* The characters of the message content the service returns
ReplyChars == {"0", "1", "2", "3", ",", " ", "-", "x"}

\* Replies built from words, besides the replies over ReplyChars
WordReplies == {
    <<"N","O","N","E">>, <<"n","o","n","e">>, <<" ","N","o","n","e"," ">>,
    <<"N","O","N","E",",","1">>, <<"N","O"," ","N","E">> }

Replies == SeqsUpTo(ReplyChars, MaxReplyLen) \cup WordReplies

Upper(c) ==
    CASE c = "n" -> "N"
      [] c = "o" -> "O"
      [] c = "e" -> "E"
      [] c = "x" -> "X"
      [] OTHER -> c

UpperStr(s) == [k \in 1..Len(s) |-> Upper(s[k])]

\* Variant: an empty reply is taken for the sentinel too.
IsNone_OrEmpty(res) == res = <<>> \/ UpperStr(res) = <<"N","O","N","E">>

\* line 96: result.upper() == "NONE"
IsNone(res) == UpperStr(res) = <<"N","O","N","E">>

\* result.replace(" ", "")
RemoveSpaces(s) == SelectSeq(s, LAMBDA c : c # " ")

\* str.split(","): the parts between the commas, empty parts included
RECURSIVE SplitComma(_, _)
SplitComma(s, cur) ==
    IF s = <<>> THEN <<cur>>
    ELSE IF Head(s) = ","
         THEN <<cur>> \o SplitComma(Tail(s), <<>>)
         ELSE SplitComma(Tail(s), Append(cur, Head(s)))

DigitVal(c) ==
    CASE c = "0" -> 0 [] c = "1" -> 1 [] c = "2" -> 2 [] c = "3" -> 3
      [] c = "4" -> 4 [] c = "5" -> 5 [] c = "6" -> 6 [] c = "7" -> 7
      [] c = "8" -> 8 [] c = "9" -> 9

RECURSIVE DecimalVal(_)
DecimalVal(ds) ==
    IF ds = <<>> THEN 0
    ELSE 10 * DecimalVal(SubSeq(ds, 1, Len(ds) - 1)) + DigitVal(ds[Len(ds)])

AllDigits(ds) == ds # <<>> /\ \A k \in 1..Len(ds) : ds[k] \in Digits

\* int(part): Some(value), or None where int raises ValueError
ParseInt(part) ==
    IF AllDigits(part) THEN Some(DecimalVal(part))
    ELSE IF part # <<>> /\ Head(part) = "-" /\ AllDigits(Tail(part))
         THEN Some(0 - DecimalVal(Tail(part)))
         ELSE None

\* Variant: the numbers of the reply are taken as 0-based positions.
RECURSIVE IndicesOf_ZeroBased(_, _)
IndicesOf_ZeroBased(parts, n) ==
    IF parts = <<>> THEN <<>>
    ELSE LET v == ParseInt(Head(parts))
             rest == IndicesOf_ZeroBased(Tail(parts), n)
         IN IF v # None /\ 0 <= v[1] /\ v[1] < n
            THEN <<v[1]>> \o rest
            ELSE rest

\* lines 101-108: the 0-based indices kept, in the order of the parts
RECURSIVE IndicesOf(_, _)
IndicesOf(parts, n) ==
    IF parts = <<>> THEN <<>>
    ELSE LET v == ParseInt(Head(parts))
             rest == IndicesOf(Tail(parts), n)
         IN IF v # None /\ 0 <= v[1] - 1 /\ v[1] - 1 < n
            THEN <<v[1] - 1>> \o rest
            ELSE rest

relevant_indices(res, n) == IndicesOf(SplitComma(RemoveSpaces(res), <<>>), n)

\* Variant: with no index parsed the (empty) selection is returned.
NoIndexResult_Empty(its) == <<>>

\* lines 110-112
NoIndexResult(its) == its

\* Variant: the handler returns an empty list.
ExceptResult_Empty(its) == <<>>

\* lines 118-120
ExceptResult(its) == its

\* lines 93-116, for a message content that is a string
HandleContent(its, content) ==
    LET res == Strip(content)
        idx == relevant_indices(res, Len(its))
    IN IF IsNone(res) THEN <<>>
       ELSE IF idx = <<>> THEN NoIndexResult(its)
       ELSE [k \in 1..Len(idx) |-> its[idx[k] + 1]]

FilterEnv == [enabled : EnabledValues, has_openai : BOOLEAN, api_key : ApiKeyValues]

DefaultItem == [title |-> <<"b","c">>, source |-> "x", score |-> None, also_on |-> None]

InitFilterVars ==
    /\ \E n \in 0..MaxItems : f_items = [k \in 1..n |-> k]
    /\ f_env \in FilterEnv
    /\ f_pc = "start"
    /\ f_calls = 0
    /\ f_reply = [kind |-> "none", content |-> <<>>]
    /\ f_result = <<>>

FilterReturn(res) ==
    /\ f_result' = res
    /\ f_pc' = "done"

\* lines 53-54
SkipDisabledOrEmpty ==
    /\ f_pc = "start"
    /\ ~is_filtering_enabled(f_env) \/ f_items = <<>>
    /\ FilterReturn(f_items)
    /\ UNCHANGED <<f_items, f_env, f_calls, f_reply>>
    /\ UNCHANGED dedupVars
    /\ UNCHANGED catVars
    /\ UNCHANGED scoreVars
    /\ UNCHANGED runVars
    /\ UNCHANGED acrossVars
    /\ UNCHANGED itemVars
    /\ UNCHANGED rankVars

\* lines 57-59
SkipNoOpenAI ==
    /\ f_pc = "start"
    /\ is_filtering_enabled(f_env) /\ f_items # <<>>
    /\ ~f_env.has_openai
    /\ FilterReturn(f_items)
    /\ UNCHANGED <<f_items, f_env, f_calls, f_reply>>
    /\ UNCHANGED dedupVars
    /\ UNCHANGED catVars
    /\ UNCHANGED scoreVars
    /\ UNCHANGED runVars
    /\ UNCHANGED acrossVars
    /\ UNCHANGED itemVars
    /\ UNCHANGED rankVars

\* lines 62-65
SkipNoApiKey ==
    /\ f_pc = "start"
    /\ is_filtering_enabled(f_env) /\ f_items # <<>>
    /\ f_env.has_openai
    /\ f_env.api_key \in {None, Some("")}
    /\ FilterReturn(f_items)
    /\ UNCHANGED <<f_items, f_env, f_calls, f_reply>>
    /\ UNCHANGED dedupVars
    /\ UNCHANGED catVars
    /\ UNCHANGED scoreVars
    /\ UNCHANGED runVars
    /\ UNCHANGED acrossVars
    /\ UNCHANGED itemVars
    /\ UNCHANGED rankVars

\* line 67: the try block is entered
EnterTry ==
    /\ f_pc = "start"
    /\ is_filtering_enabled(f_env) /\ f_items # <<>>
    /\ f_env.has_openai
    /\ f_env.api_key \notin {None, Some("")}
    /\ f_pc' = "try"
    /\ UNCHANGED <<f_items, f_env, f_calls, f_reply, f_result>>
    /\ UNCHANGED dedupVars
    /\ UNCHANGED catVars
    /\ UNCHANGED scoreVars
    /\ UNCHANGED runVars
    /\ UNCHANGED acrossVars
    /\ UNCHANGED itemVars
    /\ UNCHANGED rankVars

\* lines 68-83 raise (client construction, prompt building) before the call
PrepareRaises ==
    /\ f_pc = "try"
    /\ f_reply' = [kind |-> "raise_before_call", content |-> <<>>]
    /\ FilterReturn(ExceptResult(f_items))
    /\ UNCHANGED <<f_items, f_env, f_calls>>
    /\ UNCHANGED dedupVars
    /\ UNCHANGED catVars
    /\ UNCHANGED scoreVars
    /\ UNCHANGED runVars
    /\ UNCHANGED acrossVars
    /\ UNCHANGED itemVars
    /\ UNCHANGED rankVars

\* lines 86-91: the request is sent
CallService ==
    /\ f_pc = "try"
    /\ f_calls' = f_calls + 1
    /\ f_pc' = "calling"
    /\ UNCHANGED <<f_items, f_env, f_reply, f_result>>
    /\ UNCHANGED dedupVars
    /\ UNCHANGED catVars
    /\ UNCHANGED scoreVars
    /\ UNCHANGED runVars
    /\ UNCHANGED acrossVars
    /\ UNCHANGED itemVars
    /\ UNCHANGED rankVars

\* Variant: a failed call is tried once more.
ServiceRaises_Retry ==
    /\ f_pc = "calling"
    /\ f_calls < 2
    /\ f_reply' = [kind |-> "raise", content |-> <<>>]
    /\ f_pc' = "try"
    /\ UNCHANGED <<f_items, f_env, f_calls, f_result>>
    /\ UNCHANGED dedupVars
    /\ UNCHANGED catVars
    /\ UNCHANGED scoreVars
    /\ UNCHANGED runVars
    /\ UNCHANGED acrossVars
    /\ UNCHANGED itemVars
    /\ UNCHANGED rankVars

\* the call raises (timeout, API error): lines 118-120
ServiceRaises ==
    /\ f_pc = "calling"
    /\ f_reply' = [kind |-> "raise", content |-> <<>>]
    /\ FilterReturn(ExceptResult(f_items))
    /\ UNCHANGED <<f_items, f_env, f_calls>>
    /\ UNCHANGED dedupVars
    /\ UNCHANGED catVars
    /\ UNCHANGED scoreVars
    /\ UNCHANGED runVars
    /\ UNCHANGED acrossVars
    /\ UNCHANGED itemVars
    /\ UNCHANGED rankVars

\* the call returns a message without content (None): line 93 raises
ServiceReturnsNull ==
    /\ f_pc = "calling"
    /\ f_reply' = [kind |-> "null", content |-> <<>>]
    /\ FilterReturn(ExceptResult(f_items))
    /\ UNCHANGED <<f_items, f_env, f_calls>>
    /\ UNCHANGED dedupVars
    /\ UNCHANGED catVars
    /\ UNCHANGED scoreVars
    /\ UNCHANGED runVars
    /\ UNCHANGED acrossVars
    /\ UNCHANGED itemVars
    /\ UNCHANGED rankVars

\* the call returns a message with a content: lines 93-116
ServiceReturns ==
    /\ f_pc = "calling"
    /\ \E content \in Replies :
          /\ f_reply' = [kind |-> "content", content |-> content]
          /\ FilterReturn(HandleContent(f_items, content))
    /\ UNCHANGED <<f_items, f_env, f_calls>>
    /\ UNCHANGED dedupVars
    /\ UNCHANGED catVars
    /\ UNCHANGED scoreVars
    /\ UNCHANGED runVars
    /\ UNCHANGED acrossVars
    /\ UNCHANGED itemVars
    /\ UNCHANGED rankVars

IdleDedupVars ==
    /\ \E n \in 0..MaxItems : items = [k \in 1..n |-> DefaultItem]
    /\ threshold = <<4, 5>>
    /\ input = <<>>
    /\ groups = <<>>
    /\ result = <<>>
    /\ prevResult = <<>>
    /\ prevGroups = <<>>
    /\ runs = 0

InitFilter == InitFilterVars /\ IdleDedupVars /\ Len(items) = Len(f_items) /\ IdleCatVars /\ IdleScoreVars /\ IdleRunVars /\ IdleAcrossVars /\ IdleItemVars /\ IdleRankVars

NextFilter ==
    \/ SkipDisabledOrEmpty
    \/ SkipNoOpenAI
    \/ SkipNoApiKey
    \/ EnterTry
    \/ PrepareRaises
    \/ CallService
    \/ ServiceRaises
    \/ ServiceReturnsNull
    \/ ServiceReturns

SpecFilter == InitFilter /\ [][NextFilter]_vars

-----------------------------------------------------------------------------
(* categorize, categorize_policy                                            *)
(*                                                                          *)
(* A text is the sequence of its words; the words hold letters only and are *)
(* joined by single blanks.  A regular expression of the rule tables is the *)
(* set of word patterns it matches on such texts: a word pattern is a       *)
(* sequence of elements matched against consecutive words, "word" = the     *)
(* whole word, "prefix" = the start of the word, "any" = any word, "gap" =  *)
(* any number of words.  An expression that needs a digit or a punctuation  *)
(* mark matches no such text and is the empty set.                          *)

\* str.lower() of every word of a text
LowerText(ws) == [k \in 1..Len(ws) |-> [j \in 1..Len(ws[k]) |-> LowerAscii(ws[k][j])]]

IsPrefix(p, w) == Len(p) <= Len(w) /\ SubSeq(w, 1, Len(p)) = p

CATEGORIES == <<
    [name |-> "RELEASE", priority |-> 1, keywords |-> <<
        \* \brelease\b
        {<<[kind |-> "word", text |-> <<"r","e","l","e","a","s","e">>]>>},
        \* \bv\d+\.
        {},
        \* \bversion\s*\d
        {},
        \* \bchangelog\b
        {<<[kind |-> "word", text |-> <<"c","h","a","n","g","e","l","o","g">>]>>},
        \* \bupdate\b
        {<<[kind |-> "word", text |-> <<"u","p","d","a","t","e">>]>>},
        \* \blaunched?\b
        {<<[kind |-> "word", text |-> <<"l","a","u","n","c","h","e","d">>]>>, <<[kind |-> "word", text |-> <<"l","a","u","n","c","h","e">>]>>},
        \* \bannounce
        {<<[kind |-> "prefix", text |-> <<"a","n","n","o","u","n","c","e">>]>>},
        \* \bnew\s+feature
        {<<[kind |-> "word", text |-> <<"n","e","w">>], [kind |-> "prefix", text |-> <<"f","e","a","t","u","r","e">>]>>},
        \* \bwhat'?s\s+new\b
        {<<[kind |-> "word", text |-> <<"w","h","a","t","s">>], [kind |-> "word", text |-> <<"n","e","w">>]>>},
        \* \bintroduc
        {<<[kind |-> "prefix", text |-> <<"i","n","t","r","o","d","u","c">>]>>}
    >>],
    [name |-> "TUTORIAL", priority |-> 2, keywords |-> <<
        \* \bhow\s+to\b
        {<<[kind |-> "word", text |-> <<"h","o","w">>], [kind |-> "word", text |-> <<"t","o">>]>>},
        \* \bguide\b
        {<<[kind |-> "word", text |-> <<"g","u","i","d","e">>]>>},
        \* \btutorial\b
        {<<[kind |-> "word", text |-> <<"t","u","t","o","r","i","a","l">>]>>},
        \* \bgetting\s+started\b
        {<<[kind |-> "word", text |-> <<"g","e","t","t","i","n","g">>], [kind |-> "word", text |-> <<"s","t","a","r","t","e","d">>]>>},
        \* \bwalkthrough\b
        {<<[kind |-> "word", text |-> <<"w","a","l","k","t","h","r","o","u","g","h">>]>>},
        \* \bstep[\s-]by[\s-]step\b
        {<<[kind |-> "word", text |-> <<"s","t","e","p">>], [kind |-> "word", text |-> <<"b","y">>], [kind |-> "word", text |-> <<"s","t","e","p">>]>>},
        \* \blearn\b
        {<<[kind |-> "word", text |-> <<"l","e","a","r","n">>]>>},
        \* \bbeginners?\b
        {<<[kind |-> "word", text |-> <<"b","e","g","i","n","n","e","r","s">>]>>, <<[kind |-> "word", text |-> <<"b","e","g","i","n","n","e","r">>]>>},
        \* \bintro(duction)?\s+to\b
        {<<[kind |-> "word", text |-> <<"i","n","t","r","o","d","u","c","t","i","o","n">>], [kind |-> "word", text |-> <<"t","o">>]>>, <<[kind |-> "word", text |-> <<"i","n","t","r","o">>], [kind |-> "word", text |-> <<"t","o">>]>>}
    >>],
    [name |-> "WORKFLOW", priority |-> 3, keywords |-> <<
        \* \bworkflow\b
        {<<[kind |-> "word", text |-> <<"w","o","r","k","f","l","o","w">>]>>},
        \* \bautomation?\b
        {<<[kind |-> "word", text |-> <<"a","u","t","o","m","a","t","i","o","n">>]>>, <<[kind |-> "word", text |-> <<"a","u","t","o","m","a","t","i","o">>]>>},
        \* \bproductivity\b
        {<<[kind |-> "word", text |-> <<"p","r","o","d","u","c","t","i","v","i","t","y">>]>>},
        \* \btips?\b
        {<<[kind |-> "word", text |-> <<"t","i","p","s">>]>>, <<[kind |-> "word", text |-> <<"t","i","p">>]>>},
        \* \bsetup\b
        {<<[kind |-> "word", text |-> <<"s","e","t","u","p">>]>>},
        \* \bconfigur
        {<<[kind |-> "prefix", text |-> <<"c","o","n","f","i","g","u","r">>]>>},
        \* \bintegrat
        {<<[kind |-> "prefix", text |-> <<"i","n","t","e","g","r","a","t">>]>>},
        \* \bpipeline\b
        {<<[kind |-> "word", text |-> <<"p","i","p","e","l","i","n","e">>]>>},
        \* \bbest\s+practices?\b
        {<<[kind |-> "word", text |-> <<"b","e","s","t">>], [kind |-> "word", text |-> <<"p","r","a","c","t","i","c","e","s">>]>>, <<[kind |-> "word", text |-> <<"b","e","s","t">>], [kind |-> "word", text |-> <<"p","r","a","c","t","i","c","e">>]>>},
        \* \boptimiz
        {<<[kind |-> "prefix", text |-> <<"o","p","t","i","m","i","z">>]>>}
    >>],
    [name |-> "COMPARISON", priority |-> 4, keywords |-> <<
        \* \bvs\.?\b
        {<<[kind |-> "word", text |-> <<"v","s">>]>>},
        \* \bversus\b
        {<<[kind |-> "word", text |-> <<"v","e","r","s","u","s">>]>>},
        \* \bcompare
        {<<[kind |-> "prefix", text |-> <<"c","o","m","p","a","r","e">>]>>},
        \* \balternative
        {<<[kind |-> "prefix", text |-> <<"a","l","t","e","r","n","a","t","i","v","e">>]>>},
        \* \bbetter\s+than\b
        {<<[kind |-> "word", text |-> <<"b","e","t","t","e","r">>], [kind |-> "word", text |-> <<"t","h","a","n">>]>>},
        \* \bor\b.*\bwhich\b
        {<<[kind |-> "word", text |-> <<"o","r">>], [kind |-> "gap", text |-> <<>>], [kind |-> "word", text |-> <<"w","h","i","c","h">>]>>}
    >>],
    [name |-> "DISCUSSION", priority |-> 5, keywords |-> <<
        \* \bthoughts?\b
        {<<[kind |-> "word", text |-> <<"t","h","o","u","g","h","t","s">>]>>, <<[kind |-> "word", text |-> <<"t","h","o","u","g","h","t">>]>>},
        \* \bopinion\b
        {<<[kind |-> "word", text |-> <<"o","p","i","n","i","o","n">>]>>},
        \* \bdiscuss
        {<<[kind |-> "prefix", text |-> <<"d","i","s","c","u","s","s">>]>>},
        \* \bexperience\b
        {<<[kind |-> "word", text |-> <<"e","x","p","e","r","i","e","n","c","e">>]>>},
        \* \breview\b
        {<<[kind |-> "word", text |-> <<"r","e","v","i","e","w">>]>>},
        \* \bimpression
        {<<[kind |-> "prefix", text |-> <<"i","m","p","r","e","s","s","i","o","n">>]>>},
        \* \bama\b
        {<<[kind |-> "word", text |-> <<"a","m","a">>]>>},
        \* \bask\s
        {<<[kind |-> "word", text |-> <<"a","s","k">>], [kind |-> "any", text |-> <<>>]>>}
    >>],
    [name |-> "NEWS", priority |-> 99, keywords |-> <<
    >>]
>>

POLICY_CATEGORIES == <<
    [name |-> "MONETIZATION", priority |-> 1, keywords |-> <<
        \* \bdemonetiz
        {<<[kind |-> "prefix", text |-> <<"d","e","m","o","n","e","t","i","z">>]>>},
        \* \badsense\b
        {<<[kind |-> "word", text |-> <<"a","d","s","e","n","s","e">>]>>},
        \* \brevenue\b
        {<<[kind |-> "word", text |-> <<"r","e","v","e","n","u","e">>]>>},
        \* \bcpm\b
        {<<[kind |-> "word", text |-> <<"c","p","m">>]>>},
        \* \bypp\b
        {<<[kind |-> "word", text |-> <<"y","p","p">>]>>},
        \* \bpartner\s*program
        {<<[kind |-> "word", text |-> <<"p","a","r","t","n","e","r">>], [kind |-> "prefix", text |-> <<"p","r","o","g","r","a","m">>]>>, <<[kind |-> "prefix", text |-> <<"p","a","r","t","n","e","r","p","r","o","g","r","a","m">>]>>},
        \* \bmonetiz
        {<<[kind |-> "prefix", text |-> <<"m","o","n","e","t","i","z">>]>>},
        \* \bads?\s+policy
        {<<[kind |-> "word", text |-> <<"a","d","s">>], [kind |-> "prefix", text |-> <<"p","o","l","i","c","y">>]>>, <<[kind |-> "word", text |-> <<"a","d">>], [kind |-> "prefix", text |-> <<"p","o","l","i","c","y">>]>>},
        \* \bad\s+suitab
        {<<[kind |-> "word", text |-> <<"a","d">>], [kind |-> "prefix", text |-> <<"s","u","i","t","a","b">>]>>},
        \* \badvertiser
        {<<[kind |-> "prefix", text |-> <<"a","d","v","e","r","t","i","s","e","r">>]>>},
        \* \bearnings?\b
        {<<[kind |-> "word", text |-> <<"e","a","r","n","i","n","g","s">>]>>, <<[kind |-> "word", text |-> <<"e","a","r","n","i","n","g">>]>>},
        \* \bpayment
        {<<[kind |-> "prefix", text |-> <<"p","a","y","m","e","n","t">>]>>}
    >>],
    [name |-> "CONTENT_GUIDELINES", priority |-> 2, keywords |-> <<
        \* \bcommunity\s+guidelines?\b
        {<<[kind |-> "word", text |-> <<"c","o","m","m","u","n","i","t","y">>], [kind |-> "word", text |-> <<"g","u","i","d","e","l","i","n","e","s">>]>>, <<[kind |-> "word", text |-> <<"c","o","m","m","u","n","i","t","y">>], [kind |-> "word", text |-> <<"g","u","i","d","e","l","i","n","e">>]>>},
        \* \bstrike\b
        {<<[kind |-> "word", text |-> <<"s","t","r","i","k","e">>]>>},
        \* \bremoved?\b
        {<<[kind |-> "word", text |-> <<"r","e","m","o","v","e","d">>]>>, <<[kind |-> "word", text |-> <<"r","e","m","o","v","e">>]>>},
        \* \bviolat
        {<<[kind |-> "prefix", text |-> <<"v","i","o","l","a","t">>]>>},
        \* \brestrict
        {<<[kind |-> "prefix", text |-> <<"r","e","s","t","r","i","c","t">>]>>},
        \* \bage[\s-]restrict
        {<<[kind |-> "word", text |-> <<"a","g","e">>], [kind |-> "prefix", text |-> <<"r","e","s","t","r","i","c","t">>]>>},
        \* \bsuspend
        {<<[kind |-> "prefix", text |-> <<"s","u","s","p","e","n","d">>]>>},
        \* \bterminat
        {<<[kind |-> "prefix", text |-> <<"t","e","r","m","i","n","a","t">>]>>},
        \* \bban(ned)?\b
        {<<[kind |-> "word", text |-> <<"b","a","n","n","e","d">>]>>, <<[kind |-> "word", text |-> <<"b","a","n">>]>>},
        \* \bappeal\b
        {<<[kind |-> "word", text |-> <<"a","p","p","e","a","l">>]>>},
        \* \bwarning\b
        {<<[kind |-> "word", text |-> <<"w","a","r","n","i","n","g">>]>>}
    >>],
    [name |-> "COPYRIGHT", priority |-> 3, keywords |-> <<
        \* \bcopyright\b
        {<<[kind |-> "word", text |-> <<"c","o","p","y","r","i","g","h","t">>]>>},
        \* \bdmca\b
        {<<[kind |-> "word", text |-> <<"d","m","c","a">>]>>},
        \* \bcontent\s*id\b
        {<<[kind |-> "word", text |-> <<"c","o","n","t","e","n","t">>], [kind |-> "word", text |-> <<"i","d">>]>>, <<[kind |-> "word", text |-> <<"c","o","n","t","e","n","t","i","d">>]>>},
        \* \bclaim\b
        {<<[kind |-> "word", text |-> <<"c","l","a","i","m">>]>>},
        \* \btakedown\b
        {<<[kind |-> "word", text |-> <<"t","a","k","e","d","o","w","n">>]>>},
        \* \bfair\s+use\b
        {<<[kind |-> "word", text |-> <<"f","a","i","r">>], [kind |-> "word", text |-> <<"u","s","e">>]>>},
        \* \blicens
        {<<[kind |-> "prefix", text |-> <<"l","i","c","e","n","s">>]>>},
        \* \bmusic\s+policy
        {<<[kind |-> "word", text |-> <<"m","u","s","i","c">>], [kind |-> "prefix", text |-> <<"p","o","l","i","c","y">>]>>}
    >>],
    [name |-> "ALGORITHM", priority |-> 4, keywords |-> <<
        \* \balgorithm\b
        {<<[kind |-> "word", text |-> <<"a","l","g","o","r","i","t","h","m">>]>>},
        \* \bshadowban
        {<<[kind |-> "prefix", text |-> <<"s","h","a","d","o","w","b","a","n">>]>>},
        \* \bimpressions?\b
        {<<[kind |-> "word", text |-> <<"i","m","p","r","e","s","s","i","o","n","s">>]>>, <<[kind |-> "word", text |-> <<"i","m","p","r","e","s","s","i","o","n">>]>>},
        \* \breach\b
        {<<[kind |-> "word", text |-> <<"r","e","a","c","h">>]>>},
        \* \brecommend
        {<<[kind |-> "prefix", text |-> <<"r","e","c","o","m","m","e","n","d">>]>>},
        \* \bdiscover
        {<<[kind |-> "prefix", text |-> <<"d","i","s","c","o","v","e","r">>]>>},
        \* \bvisibility\b
        {<<[kind |-> "word", text |-> <<"v","i","s","i","b","i","l","i","t","y">>]>>},
        \* \bsuppressed?\b
        {<<[kind |-> "word", text |-> <<"s","u","p","p","r","e","s","s","e","d">>]>>, <<[kind |-> "word", text |-> <<"s","u","p","p","r","e","s","s","e">>]>>},
        \* \bviews?\s+drop
        {<<[kind |-> "word", text |-> <<"v","i","e","w","s">>], [kind |-> "prefix", text |-> <<"d","r","o","p">>]>>, <<[kind |-> "word", text |-> <<"v","i","e","w">>], [kind |-> "prefix", text |-> <<"d","r","o","p">>]>>},
        \* \btrending\b
        {<<[kind |-> "word", text |-> <<"t","r","e","n","d","i","n","g">>]>>}
    >>],
    [name |-> "TERMS_OF_SERVICE", priority |-> 5, keywords |-> <<
        \* \btos\b
        {<<[kind |-> "word", text |-> <<"t","o","s">>]>>},
        \* \bterms\s+of\s+service\b
        {<<[kind |-> "word", text |-> <<"t","e","r","m","s">>], [kind |-> "word", text |-> <<"o","f">>], [kind |-> "word", text |-> <<"s","e","r","v","i","c","e">>]>>},
        \* \bpolicy\s+update
        {<<[kind |-> "word", text |-> <<"p","o","l","i","c","y">>], [kind |-> "prefix", text |-> <<"u","p","d","a","t","e">>]>>},
        \* \bpolicy\s+change
        {<<[kind |-> "word", text |-> <<"p","o","l","i","c","y">>], [kind |-> "prefix", text |-> <<"c","h","a","n","g","e">>]>>},
        \* \bnew\s+policy
        {<<[kind |-> "word", text |-> <<"n","e","w">>], [kind |-> "prefix", text |-> <<"p","o","l","i","c","y">>]>>},
        \* \brules?\s+change
        {<<[kind |-> "word", text |-> <<"r","u","l","e","s">>], [kind |-> "prefix", text |-> <<"c","h","a","n","g","e">>]>>, <<[kind |-> "word", text |-> <<"r","u","l","e">>], [kind |-> "prefix", text |-> <<"c","h","a","n","g","e">>]>>},
        \* \bguidelines?\s+update
        {<<[kind |-> "word", text |-> <<"g","u","i","d","e","l","i","n","e","s">>], [kind |-> "prefix", text |-> <<"u","p","d","a","t","e">>]>>, <<[kind |-> "word", text |-> <<"g","u","i","d","e","l","i","n","e">>], [kind |-> "prefix", text |-> <<"u","p","d","a","t","e">>]>>}
    >>],
    [name |-> "API_CHANGES", priority |-> 6, keywords |-> <<
        \* \bapi\b
        {<<[kind |-> "word", text |-> <<"a","p","i">>]>>},
        \* \bdeveloper\b
        {<<[kind |-> "word", text |-> <<"d","e","v","e","l","o","p","e","r">>]>>},
        \* \bquota\b
        {<<[kind |-> "word", text |-> <<"q","u","o","t","a">>]>>},
        \* \bendpoint
        {<<[kind |-> "prefix", text |-> <<"e","n","d","p","o","i","n","t">>]>>},
        \* \bdeprecated?\b
        {<<[kind |-> "word", text |-> <<"d","e","p","r","e","c","a","t","e","d">>]>>, <<[kind |-> "word", text |-> <<"d","e","p","r","e","c","a","t","e">>]>>},
        \* \brate\s+limit
        {<<[kind |-> "word", text |-> <<"r","a","t","e">>], [kind |-> "prefix", text |-> <<"l","i","m","i","t">>]>>},
        \* \boauth\b
        {<<[kind |-> "word", text |-> <<"o","a","u","t","h">>]>>},
        \* \bsdk\b
        {<<[kind |-> "word", text |-> <<"s","d","k">>]>>}
    >>],
    [name |-> "AI_POLICY", priority |-> 7, keywords |-> <<
        \* \bai[\s-]generat
        {<<[kind |-> "word", text |-> <<"a","i">>], [kind |-> "prefix", text |-> <<"g","e","n","e","r","a","t">>]>>},
        \* \bsynthetic\b
        {<<[kind |-> "word", text |-> <<"s","y","n","t","h","e","t","i","c">>]>>},
        \* \bdeepfake\b
        {<<[kind |-> "word", text |-> <<"d","e","e","p","f","a","k","e">>]>>},
        \* \bartificial\s+intelligen
        {<<[kind |-> "word", text |-> <<"a","r","t","i","f","i","c","i","a","l">>], [kind |-> "prefix", text |-> <<"i","n","t","e","l","l","i","g","e","n">>]>>},
        \* \bmachine\s+learn
        {<<[kind |-> "word", text |-> <<"m","a","c","h","i","n","e">>], [kind |-> "prefix", text |-> <<"l","e","a","r","n">>]>>},
        \* \bgenerat.*\s+content
        {<<[kind |-> "prefix", text |-> <<"g","e","n","e","r","a","t">>], [kind |-> "gap", text |-> <<>>], [kind |-> "prefix", text |-> <<"c","o","n","t","e","n","t">>]>>},
        \* \bdream\s*track
        {<<[kind |-> "word", text |-> <<"d","r","e","a","m">>], [kind |-> "prefix", text |-> <<"t","r","a","c","k">>]>>, <<[kind |-> "prefix", text |-> <<"d","r","e","a","m","t","r","a","c","k">>]>>},
        \* \bai\s+disclos
        {<<[kind |-> "word", text |-> <<"a","i">>], [kind |-> "prefix", text |-> <<"d","i","s","c","l","o","s">>]>>},
        \* \bai\s+label
        {<<[kind |-> "word", text |-> <<"a","i">>], [kind |-> "prefix", text |-> <<"l","a","b","e","l">>]>>}
    >>],
    [name |-> "GENERAL", priority |-> 99, keywords |-> <<
    >>]
>>

ElemMatches(e, w) ==
    CASE e.kind = "word" -> w = e.text
      [] e.kind = "prefix" -> IsPrefix(e.text, w)
      [] e.kind = "any" -> TRUE
      [] OTHER -> FALSE

\* the elements tp match the words of ws from position i on
RECURSIVE MatchesAt(_, _, _)
MatchesAt(tp, ws, i) ==
    IF tp = <<>> THEN TRUE
    ELSE IF Head(tp).kind = "gap"
         THEN \E j \in i..Len(ws) : MatchesAt(Tail(tp), ws, j)
         ELSE /\ i <= Len(ws)
              /\ ElemMatches(Head(tp), ws[i])
              /\ MatchesAt(Tail(tp), ws, i + 1)

\* re.search(pattern, text, re.IGNORECASE) on a lower-cased text
re_search(pattern, ws) ==
    \E tp \in pattern : \E i \in 1..Len(ws) : MatchesAt(tp, ws, i)

\* the inner loop with its break: one of the category's keywords matches
CategoryMatches(config, ws) ==
    \E k \in 1..Len(config.keywords) : re_search(config.keywords[k], ws)

\* the loop over the rule table: the matching categories in declaration order
RECURSIVE MatchesOf(_, _)
MatchesOf(table, ws) ==
    IF table = <<>> THEN <<>>
    ELSE (IF CategoryMatches(Head(table), ws)
          THEN <<[name |-> Head(table).name, priority |-> Head(table).priority]>>
          ELSE <<>>) \o MatchesOf(Tail(table), ws)

\* matches.sort(key=lambda x: x[1]) is stable: x goes after every element
\* whose priority is <= x's priority
RECURSIVE InsertByPriority(_, _)
InsertByPriority(sorted, x) ==
    IF sorted = <<>> THEN <<x>>
    ELSE IF Head(sorted).priority <= x.priority
         THEN <<Head(sorted)>> \o InsertByPriority(Tail(sorted), x)
         ELSE <<x>> \o sorted

RECURSIVE SortByPriority(_)
SortByPriority(ms) ==
    IF ms = <<>> THEN <<>>
    ELSE InsertByPriority(SortByPriority(SubSeq(ms, 1, Len(ms) - 1)), ms[Len(ms)])

\* content_type.lower()
LowerHint(h) ==
    CASE h = "Release" -> "release"
      [] h = "POST" -> "post"
      [] OTHER -> h

\* lines 89-96
HintCategory(hint) ==
    IF hint # None /\ hint[1] # ""
    THEN IF LowerHint(hint[1]) \in {"release"} THEN "RELEASE"
         ELSE IF LowerHint(hint[1]) \in {"discussion", "post"} THEN "DISCUSSION"
         ELSE "NEWS"
    ELSE "NEWS"

\* categorize(title, content_type)
categorize(title, content_type) ==
    IF title = <<>> THEN "NEWS"
    ELSE LET matches == MatchesOf(CATEGORIES, LowerText(title))
         IN IF matches # <<>> THEN SortByPriority(matches)[1].name
            ELSE HintCategory(content_type)

\* lines 98-100: the text analysed (contents of the model are shorter than
\* the 500 characters kept)
text_to_analyze(title, content) ==
    IF content # None /\ content[1] # <<>>
    THEN LowerText(title) \o LowerText(content[1])
    ELSE LowerText(title)

\* categorize_policy(title, content)
categorize_policy(title, content) ==
    IF title = <<>> THEN "GENERAL"
    ELSE LET matches == MatchesOf(POLICY_CATEGORIES, text_to_analyze(title, content))
         IN IF matches # <<>> THEN SortByPriority(matches)[1].name
            ELSE "GENERAL"

\* The words the titles and contents are drawn from
Words == {
    <<"R","e","l","e","a","s","e">>, <<"u","p","d","a","t","e">>,
    <<"h","o","w">>, <<"t","o">>, <<"t","i","p","s">>, <<"v","s">>,
    <<"r","e","v","i","e","w","s">>, <<"c","u","r","s","o","r">> }

PolicyWords == {
    <<"C","o","p","y","r","i","g","h","t">>, <<"c","l","a","i","m">>,
    <<"s","t","r","i","k","e">>, <<"a","i">>, <<"l","a","b","e","l","s">>,
    <<"p","o","l","i","c","y">>, <<"u","p","d","a","t","e","d">>,
    <<"v","i","d","e","o">> }

Hints == {None, Some(""), Some("release"), Some("Release"), Some("discussion"),
          Some("POST"), Some("article")}

InitCatVars ==
    /\ c_kind \in {"general", "policy"}
    /\ c_label = None
    /\ \/ /\ c_kind = "general"
          /\ c_title \in SeqsUpTo(Words, MaxTitleWords)
          /\ c_hint \in Hints
          /\ c_content = None
       \/ /\ c_kind = "policy"
          /\ c_title \in SeqsUpTo(PolicyWords, MaxTitleWords)
          /\ c_hint = None
          /\ c_content \in {None} \cup {Some(c) : c \in SeqsUpTo(PolicyWords, MaxContentWords)}

Categorize ==
    /\ c_kind = "general"
    /\ c_label = None
    /\ c_label' = Some(categorize(c_title, c_hint))
    /\ UNCHANGED <<c_kind, c_title, c_hint, c_content>>
    /\ UNCHANGED dedupVars
    /\ UNCHANGED filterVars
    /\ UNCHANGED scoreVars
    /\ UNCHANGED runVars
    /\ UNCHANGED acrossVars
    /\ UNCHANGED itemVars
    /\ UNCHANGED rankVars

CategorizePolicy ==
    /\ c_kind = "policy"
    /\ c_label = None
    /\ c_label' = Some(categorize_policy(c_title, c_content))
    /\ UNCHANGED <<c_kind, c_title, c_hint, c_content>>
    /\ UNCHANGED dedupVars
    /\ UNCHANGED filterVars
    /\ UNCHANGED scoreVars
    /\ UNCHANGED runVars
    /\ UNCHANGED acrossVars
    /\ UNCHANGED itemVars
    /\ UNCHANGED rankVars

InitCat ==
    /\ InitCatVars
    /\ IdleFilterVars
    /\ IdleDedupVars /\ items = <<>>
    /\ IdleScoreVars
    /\ IdleRunVars
    /\ IdleAcrossVars
    /\ IdleItemVars
    /\ IdleRankVars

NextCat == Categorize \/ CategorizePolicy

SpecCat == InitCat /\ [][NextCat]_vars

-----------------------------------------------------------------------------
(* NewsFetcher.calculate_trending_score, YouTubeFetcher.calculate_trending_score *)
(*                                                                          *)
(* Times are whole hours.  A multiplier is held in tenths (1.5 is 15), so a *)
(* score of the model is ten times the score of the code.                   *)

Max(a, b) == IF a >= b THEN a ELSE b

\* HIGH_AUTHORITY_SOURCES in declaration order, multipliers in tenths
HIGH_AUTHORITY_SOURCES == <<
    [name |-> <<"t","e","c","h","c","r","u","n","c","h">>, multiplier |-> 15],
    [name |-> <<"t","h","e"," ","v","e","r","g","e">>, multiplier |-> 14],
    [name |-> <<"w","i","r","e","d">>, multiplier |-> 14],
    [name |-> <<"a","r","s"," ","t","e","c","h","n","i","c","a">>, multiplier |-> 14],
    [name |-> <<"e","n","g","a","d","g","e","t">>, multiplier |-> 13],
    [name |-> <<"v","e","n","t","u","r","e","b","e","a","t">>, multiplier |-> 13],
    [name |-> <<"z","d","n","e","t">>, multiplier |-> 12],
    [name |-> <<"c","n","e","t">>, multiplier |-> 12],
    [name |-> <<"f","o","r","b","e","s">>, multiplier |-> 12],
    [name |-> <<"b","l","o","o","m","b","e","r","g">>, multiplier |-> 13],
    [name |-> <<"r","e","u","t","e","r","s">>, multiplier |-> 13],
    [name |-> <<"b","b","c">>, multiplier |-> 12],
    [name |-> <<"n","e","w"," ","y","o","r","k"," ","t","i","m","e","s">>, multiplier |-> 13],
    [name |-> <<"w","a","s","h","i","n","g","t","o","n"," ","p","o","s","t">>, multiplier |-> 13],
    [name |-> <<"h","a","c","k","e","r"," ","n","e","w","s">>, multiplier |-> 12],
    [name |-> <<"d","e","v",".","t","o">>, multiplier |-> 11],
    [name |-> <<"m","e","d","i","u","m">>, multiplier |-> 10] >>

\* source_name in source_lower
IsSubstr(p, s) ==
    \E i \in 1..(Len(s) - Len(p) + 1) : SubSeq(s, i, i + Len(p) - 1) = p

LowerSource(s) == [k \in 1..Len(s) |-> LowerAscii(s[k])]

\* the loop with its break: the multiplier of the first table entry whose name
\* occurs in the lower-cased source, 1.0 when none does
authority_multiplier(source) ==
    LET hits == {k \in 1..Len(HIGH_AUTHORITY_SOURCES) :
                    IsSubstr(HIGH_AUTHORITY_SOURCES[k].name, LowerSource(source))}
    IN IF hits = {} THEN 10
       ELSE HIGH_AUTHORITY_SOURCES[CHOOSE k \in hits : \A j \in hits : k <= j].multiplier

WindowHours == 168

\* Variant: the recency score is not floored at zero.
recency_score_NoFloor(hours_old) == WindowHours - hours_old

\* recency_score = max(0, 168 - hours_old)
recency_score(hours_old) == Max(0, WindowHours - hours_old)

Score(v) == [kind |-> "score", value |-> v]
Raises(e) == [kind |-> "raise", value |-> e]

\* NewsFetcher.calculate_trending_score(article, now).  The published field is
\* absent or None ("absent"), an aware datetime ("aware"), a datetime without
\* a time zone ("naive") or a text ("text"); now is aware, and subtracting a
\* naive datetime or a text from it raises TypeError.
news_calculate_trending_score(published, source, now) ==
    IF published.form = "absent" THEN Score(0)
    ELSE IF published.form = "aware"
         THEN Score(recency_score(now - published.at) * authority_multiplier(source))
         ELSE Raises("TypeError")

FallbackDays == 7

\* the try block of lines 195-198 and days_old: published_at is absent (the
\* default "", ValueError), not a text (AttributeError), a text that is no
\* ISO date (ValueError), an ISO date with a zone ("aware") or an ISO date
\* without one ("naive": parsed, but now - published raises TypeError).
\* timedelta.days rounds down.
days_old(published_at, now) ==
    IF published_at.form \in {"absent", "not_text", "unparseable"} THEN Some(FallbackDays)
    ELSE IF published_at.form = "aware" THEN Some((now - published_at.at) \div 24)
    ELSE None

\* Variant: the multiplier has no floor of 0.3.
recency_multiplier_NoFloor(days) == Max(0, 10 - days)

\* recency_multiplier = max(0.3, 1.0 - days_old * 0.1), in tenths
recency_multiplier(days) == Max(3, 10 - days)

\* engagement_score = views + likes * 10 + comments * 5
engagement_score(stats) == stats.views + stats.likes * 10 + stats.comments * 5

\* YouTubeFetcher.calculate_trending_score(video, stats, now)
youtube_calculate_trending_score(published_at, stats, now) ==
    LET d == days_old(published_at, now)
    IN IF d = None THEN Raises("TypeError")
       ELSE Score(engagement_score(stats) * recency_multiplier(d[1]))

MaxDays == 8

\* the hours at which the clock of a run stands, the publication being at
\* hour 0: around every day boundary, and before the publication
Hours == {-25, -1} \cup {24 * d + r : d \in 0..MaxDays, r \in {0, 1, 23}}

SourceNames == {
    <<"T","e","c","h","C","r","u","n","c","h">>,   \* "TechCrunch"
    <<"T","h","e"," ","V","e","r","g","e"," ","W","i","r","e","d">>,   \* "The Verge Wired"
    <<"M","e","d","i","u","m"," ","v","i","a"," ","H","a","c","k","e","r"," ","N","e","w","s">>,   \* "Medium via Hacker News"
    <<"E","x","a","m","p","l","e"," ","B","l","o","g">>,   \* "Example Blog"
    <<>>,   \* ""
    <<"B","B","C">> }   \* "BBC"

ArticleStamps == {[form |-> f, at |-> 0] : f \in {"absent", "aware", "naive", "text"}}

VideoStamps == {[form |-> f, at |-> 0] :
                   f \in {"absent", "not_text", "unparseable", "aware", "naive"}}

Stats == [views : {0, 100}, likes : {0, 1}, comments : {0, 1}]

InitScoreVars ==
    /\ s_kind \in {"article", "video"}
    /\ s_now \in Hours
    /\ s_out = None
    /\ s_prev = None
    /\ \/ /\ s_kind = "article"
          /\ s_published \in ArticleStamps
          /\ s_source \in SourceNames
          /\ s_stats = NoStats
       \/ /\ s_kind = "video"
          /\ s_published \in VideoStamps
          /\ s_source = <<>>
          /\ s_stats \in Stats

\* the scored item is scored at the present hour; the previous outcome is kept
ScoreArticle ==
    /\ s_kind = "article"
    /\ s_out' = Some([now |-> s_now,
                      res |-> news_calculate_trending_score(s_published, s_source, s_now)])
    /\ s_prev' = s_out
    /\ s_out' # s_out
    /\ UNCHANGED <<s_kind, s_published, s_source, s_stats, s_now>>
    /\ UNCHANGED <<dedupVars, filterVars, catVars>>
    /\ UNCHANGED runVars
    /\ UNCHANGED acrossVars
    /\ UNCHANGED itemVars
    /\ UNCHANGED rankVars

ScoreVideo ==
    /\ s_kind = "video"
    /\ s_out' = Some([now |-> s_now,
                      res |-> youtube_calculate_trending_score(s_published, s_stats, s_now)])
    /\ s_prev' = s_out
    /\ s_out' # s_out
    /\ UNCHANGED <<s_kind, s_published, s_source, s_stats, s_now>>
    /\ UNCHANGED <<dedupVars, filterVars, catVars>>
    /\ UNCHANGED runVars
    /\ UNCHANGED acrossVars
    /\ UNCHANGED itemVars
    /\ UNCHANGED rankVars

\* time passes between two calls
Tick ==
    /\ \E h \in Hours : h > s_now /\ s_now' = h
    /\ UNCHANGED <<s_kind, s_published, s_source, s_stats, s_out, s_prev>>
    /\ UNCHANGED <<dedupVars, filterVars, catVars>>
    /\ UNCHANGED runVars
    /\ UNCHANGED acrossVars
    /\ UNCHANGED itemVars
    /\ UNCHANGED rankVars

InitScore ==
    /\ InitScoreVars
    /\ IdleFilterVars
    /\ IdleDedupVars /\ items = <<>>
    /\ IdleCatVars
    /\ IdleRunVars
    /\ IdleAcrossVars
    /\ IdleItemVars
    /\ IdleRankVars

NextScore == ScoreArticle \/ ScoreVideo \/ Tick

SpecScore == InitScore /\ [][NextScore]_vars

-----------------------------------------------------------------------------
(* main: one run of the orchestrator                                        *)
(*                                                                          *)
(* Items are numbered in the order their source collaborator ranks them.    *)

MaxFound == 3
MaxLimit == 2
MaxRunReplyLen == 3

Min(a, b) == IF a <= b THEN a ELSE b

\* s[:n]
Slice_None(s, n) == s

Slice(s, n) ==
    IF n >= 0 THEN SubSeq(s, 1, Min(n, Len(s)))
    ELSE SubSeq(s, 1, Max(0, Len(s) + n))

\* get_config(): the display limits and the pool size are counts
Configs == [top_articles : 0..MaxLimit, top_blogs : 0..MaxLimit,
            fetch_pool_size : 1..MaxFound]

\* the command line switches that select the sources
Args == [videos : BOOLEAN, articles : BOOLEAN, no_releases : BOOLEAN, no_blogs : BOOLEAN]

fetch_only_videos(args) == args.videos /\ ~args.articles
fetch_only_articles(args) == args.articles /\ ~args.videos

\* the sources main queries, in the order of lines 376-395
SelectedSources(args) ==
    (IF ~args.no_releases /\ ~fetch_only_videos(args) /\ ~fetch_only_articles(args)
     THEN <<"releases">> ELSE <<>>)
    \o (IF ~fetch_only_articles(args) THEN <<"videos">> ELSE <<>>)
    \o (IF ~fetch_only_videos(args) THEN <<"articles">> ELSE <<>>)
    \o (IF ~args.no_blogs /\ ~fetch_only_videos(args) /\ ~fetch_only_articles(args)
        THEN <<"blogs">> ELSE <<>>)

\* fetch_limit of fetch_articles and fetch_blogs
fetch_limit(use_pool_size, config, top) ==
    IF use_pool_size THEN config.fetch_pool_size ELSE top

Stage(name, pool) == [stage |-> name, pool |-> pool]

\* Variant: the items are categorized before they are scored and sorted.
ArticleStages_CategorizeFirst(found) ==
    IF found = 0 THEN <<Stage("categorize", "articles")>>
    ELSE <<Stage("categorize", "articles"), Stage("score", "articles")>>

\* the stages fetch_articles runs on what the feeds returned:
\* fetch_trending_articles scores, sorts and cuts (nothing when no article
\* was found), then categorize_items
ArticleStages(found) ==
    IF found = 0 THEN <<Stage("categorize", "articles")>>
    ELSE <<Stage("score", "articles"), Stage("categorize", "articles")>>

\* the stages fetch_blogs runs: fetch_all_blog_posts sorts by date and cuts,
\* then categorize_items
BlogStages(found) == <<Stage("sort", "blogs"), Stage("categorize", "blogs")>>

\* the outcomes of a source collaborator: it raises, before or after the
\* scoring, or it returns the items it found
Outcomes(stages) ==
    [kind : {"raise"}, found : {0}, at : stages]
    \cup [kind : {"ok"}, found : 0..MaxFound, at : {"end"}]

\* the items ranked first to last
Ranked(n) == [k \in 1..n |-> k]

\* the stages completed when the collaborator raised
StagesBefore(stages, at) ==
    IF stages # <<>> /\ at = "categorize" /\ Len(stages) = 2 THEN <<stages[1]>> ELSE <<>>

\* Variant: an error of a source ends the run.
AfterSource_Reraise(outcome, step) ==
    IF outcome.kind = "raise" THEN "aborted" ELSE step

\* the except clauses of the fetch functions return to main, which goes on
\* with its next step
AfterSource(outcome, step) == step

\* the message contents the service returns during a run
RunReplyChars == {"1", "3", ",", "x"}
RunReplies == SeqsUpTo(RunReplyChars, MaxRunReplyLen) \cup {<<"N","O","N","E">>}

\* what filter_by_relevance can return for a list, filtering being enabled:
\* the list itself (nothing to filter, no client, no key, an error) or what
\* the reply selects
filter_by_relevance(its) ==
    IF its = <<>> THEN {its}
    ELSE {its, ExceptResult(its)} \cup {HandleContent(its, c) : c \in RunReplies}

\* main up to line 374: the switches are read, the lists are empty
InitRunVars ==
    /\ r_pc = "releases"
    /\ r_args \in Args
    /\ r_filtering \in BOOLEAN
    /\ r_config \in Configs
    /\ r_lists = [videos |-> <<>>, articles |-> <<>>, releases |-> <<>>, blogs |-> <<>>]
    /\ r_failed = {}
    /\ r_queried = <<>>
    /\ r_trace = <<>>
    /\ r_filtered = [articles |-> <<>>, blogs |-> <<>>]

\* a source is queried: the list it contributes, the error noted, the next step
Query(source, outcome, list, stages, step) ==
    /\ r_lists' = [r_lists EXCEPT ![source] = IF outcome.kind = "raise" THEN <<>> ELSE list]
    /\ r_failed' = IF outcome.kind = "raise" THEN r_failed \cup {source} ELSE r_failed
    /\ r_queried' = Append(r_queried, source)
    /\ r_trace' = r_trace \o stages
    /\ r_pc' = AfterSource(outcome, step)

SkipSource(step) ==
    /\ r_pc' = step
    /\ UNCHANGED <<r_lists, r_failed, r_queried, r_trace>>

\* lines 376-380 and fetch_releases
FetchReleases ==
    /\ r_pc = "releases"
    /\ IF ~r_args.no_releases /\ ~fetch_only_videos(r_args) /\ ~fetch_only_articles(r_args)
       THEN \E o \in Outcomes({"fetch"}) :
               Query("releases", o, Ranked(Min(o.found, 1)), <<>>, "videos")
       ELSE SkipSource("videos")
    /\ UNCHANGED <<r_args, r_filtering, r_config, r_filtered>>
    /\ UNCHANGED <<dedupVars, filterVars, catVars, scoreVars>>
    /\ UNCHANGED acrossVars
    /\ UNCHANGED itemVars
    /\ UNCHANGED rankVars

\* lines 382-385 and fetch_videos
FetchVideos ==
    /\ r_pc = "videos"
    /\ IF ~fetch_only_articles(r_args)
       THEN \E o \in Outcomes({"fetch"}) :
               Query("videos", o, Ranked(Min(o.found, 1)), <<>>, "articles")
       ELSE SkipSource("articles")
    /\ UNCHANGED <<r_args, r_filtering, r_config, r_filtered>>
    /\ UNCHANGED <<dedupVars, filterVars, catVars, scoreVars>>
    /\ UNCHANGED acrossVars
    /\ UNCHANGED itemVars
    /\ UNCHANGED rankVars

\* lines 387-390 and fetch_articles
FetchArticles ==
    /\ r_pc = "articles"
    /\ IF ~fetch_only_videos(r_args)
       THEN \E o \in Outcomes({"fetch", "score", "categorize"}) :
               Query("articles", o,
                     Slice(Ranked(o.found),
                           fetch_limit(r_filtering, r_config, r_config.top_articles)),
                     IF o.kind = "ok" THEN ArticleStages(o.found)
                     ELSE StagesBefore(ArticleStages(1), o.at),
                     "blogs")
       ELSE SkipSource("blogs")
    /\ UNCHANGED <<r_args, r_filtering, r_config, r_filtered>>
    /\ UNCHANGED <<dedupVars, filterVars, catVars, scoreVars>>
    /\ UNCHANGED acrossVars
    /\ UNCHANGED itemVars
    /\ UNCHANGED rankVars

\* lines 392-395 and fetch_blogs
FetchBlogs ==
    /\ r_pc = "blogs"
    /\ IF ~r_args.no_blogs /\ ~fetch_only_videos(r_args) /\ ~fetch_only_articles(r_args)
       THEN \E o \in Outcomes({"fetch", "categorize"}) :
               Query("blogs", o,
                     Slice(Ranked(o.found),
                           fetch_limit(r_filtering, r_config, r_config.top_blogs)),
                     IF o.kind = "ok" THEN BlogStages(o.found)
                     ELSE StagesBefore(BlogStages(1), o.at),
                     "filter")
       ELSE SkipSource("filter")
    /\ UNCHANGED <<r_args, r_filtering, r_config, r_filtered>>
    /\ UNCHANGED <<dedupVars, filterVars, catVars, scoreVars>>
    /\ UNCHANGED acrossVars
    /\ UNCHANGED itemVars
    /\ UNCHANGED rankVars

\* lines 397-404 and apply_relevance_filter
ApplyRelevanceFilter ==
    /\ r_pc = "filter"
    /\ IF r_lists.articles # <<>> \/ r_lists.blogs # <<>>
       THEN \E fa \in (IF r_filtering THEN filter_by_relevance(r_lists.articles)
                       ELSE {r_lists.articles}) :
            \E fb \in (IF r_filtering THEN filter_by_relevance(r_lists.blogs)
                       ELSE {r_lists.blogs}) :
               /\ r_filtered' = [articles |-> fa, blogs |-> fb]
               /\ r_lists' = [r_lists EXCEPT
                                 !.articles = Slice(fa, r_config.top_articles),
                                 !.blogs = Slice(fb, r_config.top_blogs)]
               /\ r_trace' = r_trace
                     \o (IF r_filtering
                         THEN <<Stage("filter", "articles"), Stage("filter", "blogs")>>
                         ELSE <<>>)
                     \o <<Stage("truncate", "articles"), Stage("truncate", "blogs")>>
       ELSE /\ r_filtered' = [articles |-> r_lists.articles, blogs |-> r_lists.blogs]
            /\ UNCHANGED <<r_lists, r_trace>>
    /\ r_pc' = "deliver"
    /\ UNCHANGED <<r_args, r_filtering, r_config, r_failed, r_queried>>
    /\ UNCHANGED <<dedupVars, filterVars, catVars, scoreVars>>
    /\ UNCHANGED acrossVars
    /\ UNCHANGED itemVars
    /\ UNCHANGED rankVars

\* lines 406-420: the lists are printed (dry run) or sent; a report that
\* could not be sent ends the run with exit status 1
Deliver ==
    /\ r_pc = "deliver"
    /\ \E dry_run \in BOOLEAN, success \in BOOLEAN :
          r_pc' = IF dry_run \/ success THEN "done" ELSE "exit1"
    /\ r_trace' = r_trace \o <<Stage("deliver", "articles"), Stage("deliver", "blogs")>>
    /\ UNCHANGED <<r_args, r_filtering, r_config, r_lists, r_failed, r_queried, r_filtered>>
    /\ UNCHANGED <<dedupVars, filterVars, catVars, scoreVars>>
    /\ UNCHANGED acrossVars
    /\ UNCHANGED itemVars
    /\ UNCHANGED rankVars

InitRun ==
    /\ InitRunVars
    /\ IdleFilterVars
    /\ IdleDedupVars /\ items = <<>>
    /\ IdleCatVars
    /\ IdleScoreVars
    /\ IdleAcrossVars
    /\ IdleItemVars
    /\ IdleRankVars

NextRun ==
    FetchReleases \/ FetchVideos \/ FetchArticles \/ FetchBlogs
        \/ ApplyRelevanceFilter \/ Deliver

SpecRun == InitRun /\ [][NextRun]_vars

-----------------------------------------------------------------------------
(* deduplicate_across_sources *)

MaxAcrossItems == 2
MaxSourceLists == 2

\* the items of the source lists: score, points and trending_score are
\* optional keys; the items with a score are those with points besides
RawItem ==
    { it \in [title : {<<"b","c">>, <<"b","c","d">>}, source : {"x"},
              score : {None, Some(0)}, points : {None, Some(0), Some(5)},
              trending_score : {None, Some(7)}, also_on : {None}] :
        it.score # None => it.points = Some(5) /\ it.trending_score = None }

\* the ways to cut the list s into n consecutive lists
RECURSIVE Splits(_, _)
Splits(s, n) ==
    IF n = 0 THEN (IF s = <<>> THEN {<<>>} ELSE {})
    ELSE UNION {{<<SubSeq(s, 1, c)>> \o r : r \in Splits(SubSeq(s, c + 1, Len(s)), n - 1)} :
                   c \in 0..Len(s)}

\* lines 190-192: all_items
all_items(source_lists) == Concat(source_lists)

\* item.get(key, 0) for an optional key
GetOr0(v) == IF v = None THEN 0 ELSE v[1]

\* lines 198-202: points or trending_score or 0
common_score(it) ==
    IF GetOr0(it.points) # 0 THEN GetOr0(it.points)
    ELSE IF GetOr0(it.trending_score) # 0 THEN GetOr0(it.trending_score)
    ELSE 0

\* Variant: a score of 0 counts as no score.
with_score_Falsy(it) ==
    IF GetOr0(it.score) = 0 THEN [it EXCEPT !.score = Some(common_score(it))] ELSE it

\* lines 197-202: the item after the loop body
with_score(it) ==
    IF it.score = None THEN [it EXCEPT !.score = Some(common_score(it))] ELSE it

\* deduplicate_across_sources(*source_lists, threshold)
deduplicate_across_sources(source_lists, th) ==
    LET all == all_items(source_lists)
    IN deduplicate_items([k \in 1..Len(all) |-> with_score(all[k])],
                         [k \in 1..Len(all) |-> k], th)

InitAcrossVars ==
    \E flat \in SeqsUpTo(RawItem, MaxAcrossItems) : \E n \in 0..MaxSourceLists :
        a_lists \in Splits(flat, n)

\* the call: the heap holds the items of all_items afterwards
DeduplicateAcrossSources ==
    /\ runs = 0
    /\ \E r \in {deduplicate_across_sources(a_lists, threshold)} :
          /\ input' = [k \in 1..Len(all_items(a_lists)) |-> k]
          /\ groups' = r.groups
          /\ result' = r.result
          /\ items' = r.heap
    /\ prevResult' = result
    /\ prevGroups' = groups
    /\ runs' = 1
    /\ UNCHANGED <<threshold, a_lists>>
    /\ UNCHANGED <<filterVars, catVars, scoreVars, runVars>>
    /\ UNCHANGED itemVars
    /\ UNCHANGED rankVars

InitAcross ==
    /\ InitAcrossVars
    /\ items = <<>>
    /\ threshold \in Thresholds
    /\ input = <<>>
    /\ groups = <<>>
    /\ result = <<>>
    /\ prevResult = <<>>
    /\ prevGroups = <<>>
    /\ runs = 0
    /\ IdleFilterVars /\ IdleCatVars /\ IdleScoreVars /\ IdleRunVars
    /\ IdleItemVars
    /\ IdleRankVars

NextAcross == DeduplicateAcrossSources

SpecAcross == InitAcross /\ [][NextAcross]_vars

-----------------------------------------------------------------------------
(* categorize_item, categorize_items, categorize_policy_item,
   categorize_policy_items *)

MaxCatItems == 2

\* a dictionary with the keys of the record fields whose value is present
DictOf(fields) ==
    [k \in {j \in DOMAIN fields : fields[j] # None} |-> fields[k][1]]

GeneralItems ==
    { DictOf(f) : f \in [title : {None, Some(<< <<"h","o","w">>, <<"t","o">> >>)},
                         type : {None, Some("release")},
                         category : {None, Some("OLD")},
                         url : {Some("u")},
                         source : {Some("s")}] }

\* policy items: every combination of summary and description under a
\* title, an item with none of the three, and one with an earlier category
PolicyItems ==
    { DictOf(f) : f \in
        { g \in [title : {None, Some(<< <<"v","i","d","e","o">> >>)},
                 summary : {None, Some(<<>>), Some(<< <<"s","t","r","i","k","e">> >>)},
                 description : {None, Some(<< <<"a","i">>, <<"l","a","b","e","l","s">> >>)},
                 category : {None, Some("OLD")},
                 url : {Some("u")},
                 source : {Some("s")}] :
            /\ g.title = None =>
                  g.summary = None /\ g.description = None /\ g.category = None
            /\ g.category # None =>
                  g.summary \notin {None, Some(<<>>)} /\ g.description # None } }

\* item.get(key, default)
Get(item, key, default) == IF key \in DOMAIN item THEN item[key] ELSE default

\* Variant: the item is rebuilt with the category alone.
set_category_Rebuild(item, label) == [k \in {"category"} |-> label]

\* item["category"] = label
set_category(item, label) ==
    [k \in DOMAIN item \cup {"category"} |->
        IF k = "category" THEN label ELSE item[k]]

\* categorizer.py lines 109-113
categorize_item(item) ==
    set_category(item,
        categorize(Get(item, "title", <<>>),
                   IF "type" \in DOMAIN item THEN Some(item["type"]) ELSE None))

\* policy_categorizer.py line 129: summary or description
item_content(item) ==
    IF Get(item, "summary", <<>>) # <<>> THEN item["summary"]
    ELSE Get(item, "description", <<>>)

\* policy_categorizer.py lines 128-132
categorize_policy_item(item) ==
    set_category(item,
        categorize_policy(Get(item, "title", <<>>), Some(item_content(item))))

ItemCategorizer(kind, item) ==
    IF kind = "general" THEN categorize_item(item) ELSE categorize_policy_item(item)

\* the list comprehension of categorize_items and categorize_policy_items:
\* the heap after the items of the list were categorized in order
RECURSIVE categorize_items(_, _, _)
categorize_items(kind, heap, list) ==
    IF list = <<>> THEN heap
    ELSE categorize_items(kind,
             [heap EXCEPT ![Head(list)] = ItemCategorizer(kind, heap[Head(list)])],
             Tail(list))

InitItemVars ==
    /\ ci_kind \in {"general", "policy"}
    /\ ci_heap \in SeqsUpTo(IF ci_kind = "general" THEN GeneralItems ELSE PolicyItems,
                            MaxCatItems)
    /\ ci_before = ci_heap
    /\ ci_list \in SeqsUpTo(1..Len(ci_heap), MaxCatItems)
    /\ ci_form = "none"
    /\ ci_out = <<>>

OtherThanItemVars ==
    /\ UNCHANGED dedupVars
    /\ UNCHANGED filterVars
    /\ UNCHANGED catVars
    /\ UNCHANGED scoreVars
    /\ UNCHANGED runVars
    /\ UNCHANGED acrossVars
    /\ UNCHANGED rankVars

\* categorize_item(item) for an item of the heap
CategorizeItem ==
    /\ ci_form = "none"
    /\ ci_kind = "general"
    /\ \E i \in 1..Len(ci_heap) :
          /\ ci_heap' = [ci_heap EXCEPT ![i] = categorize_item(ci_heap[i])]
          /\ ci_out' = <<i>>
    /\ ci_form' = "item"
    /\ UNCHANGED <<ci_kind, ci_before, ci_list>>
    /\ OtherThanItemVars

\* categorize_policy_item(item) for an item of the heap
CategorizePolicyItem ==
    /\ ci_form = "none"
    /\ ci_kind = "policy"
    /\ \E i \in 1..Len(ci_heap) :
          /\ ci_heap' = [ci_heap EXCEPT ![i] = categorize_policy_item(ci_heap[i])]
          /\ ci_out' = <<i>>
    /\ ci_form' = "item"
    /\ UNCHANGED <<ci_kind, ci_before, ci_list>>
    /\ OtherThanItemVars

\* categorize_items(items)
CategorizeItems ==
    /\ ci_form = "none"
    /\ ci_kind = "general"
    /\ ci_heap' = categorize_items("general", ci_heap, ci_list)
    /\ ci_out' = ci_list
    /\ ci_form' = "list"
    /\ UNCHANGED <<ci_kind, ci_before, ci_list>>
    /\ OtherThanItemVars

\* categorize_policy_items(items)
CategorizePolicyItems ==
    /\ ci_form = "none"
    /\ ci_kind = "policy"
    /\ ci_heap' = categorize_items("policy", ci_heap, ci_list)
    /\ ci_out' = ci_list
    /\ ci_form' = "list"
    /\ UNCHANGED <<ci_kind, ci_before, ci_list>>
    /\ OtherThanItemVars

InitItems ==
    /\ InitItemVars
    /\ IdleDedupVars
    /\ items = <<>>
    /\ IdleFilterVars
    /\ IdleCatVars
    /\ IdleScoreVars
    /\ IdleRunVars
    /\ IdleAcrossVars
    /\ IdleRankVars

NextItems ==
    \/ CategorizeItem
    \/ CategorizePolicyItem
    \/ CategorizeItems
    \/ CategorizePolicyItems

SpecItems == InitItems /\ [][NextItems]_vars

-----------------------------------------------------------------------------
(* NewsFetcher.fetch_trending_articles, YouTubeFetcher.fetch_trending_videos,
   BlogFetcher.fetch_all_blog_posts *)

MaxRank == 3
MaxTopN == 2

\* the hour at which the fetch runs
RankNow == 200

Absent == [form |-> "absent", at |-> 0]
AwareAged(hours) == [form |-> "aware", at |-> RankNow - hours]

\* a source with no entry in HIGH_AUTHORITY_SOURCES, and one with an entry
PlainSource == <<"N","y","t">>
AuthoritySource == <<"B","B","C">>

\* feed entries of Google News: the link may be empty, the date is absent or
\* an aware datetime (_parse_date), 1 hour or 170 hours old
ArticleEntries ==
    { [key |-> u, published |-> ps[1], source |-> ps[2], stats |-> NoStats] :
        u \in {"", "u", "v"},
        ps \in { <<Absent, PlainSource>>, <<AwareAged(1), PlainSource>>,
                 <<AwareAged(1), AuthoritySource>>, <<AwareAged(170), PlainSource>> } }

\* search results of the YouTube API: an id, publishedAt (a date with a
\* zone) and the statistics fetched for the id
VideoEntries ==
    { [key |-> i, published |-> AwareAged(h), source |-> <<>>, stats |-> st] :
        i \in {"a", "b"}, h \in {1, 50},
        st \in {NoStats, [views |-> 100, likes |-> 0, comments |-> 0]} }

\* entries of the blog feeds
BlogEntries ==
    { [key |-> u, published |-> p, source |-> PlainSource, stats |-> NoStats] :
        u \in {"u", "v"},
        p \in {Absent, AwareAged(1), AwareAged(50), AwareAged(170)} }

\* search_news and fetch_blog_posts: published and published < cutoff_date
BeforeCutoff(entry, days_back, now) ==
    entry.published.form = "aware" /\ entry.published.at < now - 24 * days_back

\* the positions of the feed whose entries the search returns
Returned(feed, days_back, now) ==
    SelectSeq([k \in 1..Len(feed) |-> k],
              LAMBDA k : ~BeforeCutoff(feed[k], days_back, now))

\* news_fetcher.py lines 297-304: the articles kept, by URL
RECURSIVE DedupByUrl(_, _, _)
DedupByUrl(feed, refs, seen_urls) ==
    IF refs = <<>> THEN <<>>
    ELSE LET url == feed[Head(refs)].key
         IN IF url # "" /\ url \notin seen_urls
            THEN <<Head(refs)>> \o DedupByUrl(feed, Tail(refs), seen_urls \cup {url})
            ELSE DedupByUrl(feed, Tail(refs), seen_urls)

\* youtube_fetcher.py lines 240-246: the videos kept, by id
RECURSIVE DedupById(_, _, _)
DedupById(feed, refs, seen_ids) ==
    IF refs = <<>> THEN <<>>
    ELSE LET id == feed[Head(refs)].key
         IN IF id \notin seen_ids
            THEN <<Head(refs)>> \o DedupById(feed, Tail(refs), seen_ids \cup {id})
            ELSE DedupById(feed, Tail(refs), seen_ids)

\* Variant: an item is put before the items of the same key.
InsertByKey_BeforeEqual(sorted, r, keys) ==
    LET n == Cardinality({j \in 1..Len(sorted) : keys[sorted[j]] > keys[r]})
    IN SubSeq(sorted, 1, n) \o <<r>> \o SubSeq(sorted, n + 1, Len(sorted))

\* one item more in a list sorted by descending key: after the items of a
\* greater or the same key
InsertByKey(sorted, r, keys) ==
    LET n == Cardinality({j \in 1..Len(sorted) : keys[sorted[j]] >= keys[r]})
    IN SubSeq(sorted, 1, n) \o <<r>> \o SubSeq(sorted, n + 1, Len(sorted))

\* list.sort(key=..., reverse=True): descending, items of the same key in
\* the order they had
RECURSIVE SortByKeyInto(_, _, _)
SortByKeyInto(sorted, refs, keys) ==
    IF refs = <<>> THEN sorted
    ELSE SortByKeyInto(InsertByKey(sorted, Head(refs), keys), Tail(refs), keys)

sort_reverse(refs, keys) == SortByKeyInto(<<>>, refs, keys)

\* datetime.min.replace(tzinfo=timezone.utc): before every date of a feed
datetime_min == -1

\* blog_fetcher.py line 190: the sort key of a post
PublishedKey(entry) ==
    IF entry.published.form = "aware" THEN entry.published.at ELSE datetime_min

ArticleScores(feed, now) ==
    [k \in 1..Len(feed) |->
        news_calculate_trending_score(feed[k].published, feed[k].source, now).value]

VideoScores(feed, now) ==
    [k \in 1..Len(feed) |->
        youtube_calculate_trending_score(feed[k].published, feed[k].stats, now).value]

\* the trending_score fields written: of the items of all_articles alone
Written(scores, all) ==
    [k \in 1..Len(scores) |-> IF k \in Range(all) THEN Some(scores[k]) ELSE None]

InitRankVars ==
    /\ k_kind \in {"articles", "videos", "blogs"}
    /\ k_feed \in SeqsUpTo(CASE k_kind = "articles" -> ArticleEntries
                             [] k_kind = "videos" -> VideoEntries
                             [] OTHER -> BlogEntries, MaxRank)
    /\ k_days_back \in (IF k_kind = "videos" THEN {1} ELSE {1, 8})
    /\ k_top_n \in 0..MaxTopN
    /\ k_now = RankNow
    /\ k_scores = [k \in 1..Len(k_feed) |-> None]
    /\ k_all = <<>>
    /\ k_out = <<>>
    /\ k_pc = "start"

OtherThanRankVars ==
    /\ UNCHANGED dedupVars
    /\ UNCHANGED filterVars
    /\ UNCHANGED catVars
    /\ UNCHANGED scoreVars
    /\ UNCHANGED runVars
    /\ UNCHANGED acrossVars
    /\ UNCHANGED itemVars

\* the scoring, the sort and the cut of both fetchers, for the items
\* collected and the scores calculated for them
RankAndCut(all, scores) ==
    IF all = <<>>
    THEN /\ k_all' = <<>>
         /\ k_out' = <<>>
         /\ UNCHANGED k_scores
    ELSE /\ k_scores' = Written(scores, all)
         /\ k_all' = sort_reverse(all, scores)
         /\ k_out' = Slice(k_all', k_top_n)

\* NewsFetcher.fetch_trending_articles
FetchTrendingArticles ==
    /\ k_pc = "start"
    /\ k_kind = "articles"
    /\ \E all \in {DedupByUrl(k_feed, Returned(k_feed, k_days_back, k_now), {})} :
       \E scores \in {ArticleScores(k_feed, k_now)} :
          RankAndCut(all, scores)
    /\ k_pc' = "done"
    /\ UNCHANGED <<k_kind, k_feed, k_days_back, k_top_n, k_now>>
    /\ OtherThanRankVars

\* YouTubeFetcher.fetch_trending_videos; the API applies publishedAfter
FetchTrendingVideos ==
    /\ k_pc = "start"
    /\ k_kind = "videos"
    /\ \E all \in {DedupById(k_feed, [k \in 1..Len(k_feed) |-> k], {})} :
       \E scores \in {VideoScores(k_feed, k_now)} :
          RankAndCut(all, scores)
    /\ k_pc' = "done"
    /\ UNCHANGED <<k_kind, k_feed, k_days_back, k_top_n, k_now>>
    /\ OtherThanRankVars

\* BlogFetcher.fetch_all_blog_posts
FetchAllBlogPosts ==
    /\ k_pc = "start"
    /\ k_kind = "blogs"
    /\ LET all == Returned(k_feed, k_days_back, k_now)
       IN /\ k_all' = sort_reverse(all, [k \in 1..Len(k_feed) |-> PublishedKey(k_feed[k])])
          /\ k_out' = Slice(k_all', k_top_n)
    /\ k_pc' = "done"
    /\ UNCHANGED <<k_kind, k_feed, k_days_back, k_top_n, k_now, k_scores>>
    /\ OtherThanRankVars

InitRank ==
    /\ InitRankVars
    /\ IdleDedupVars
    /\ items = <<>>
    /\ IdleFilterVars
    /\ IdleCatVars
    /\ IdleScoreVars
    /\ IdleRunVars
    /\ IdleAcrossVars
    /\ IdleItemVars

NextRank ==
    \/ FetchTrendingArticles
    \/ FetchTrendingVideos
    \/ FetchAllBlogPosts

SpecRank == InitRank /\ [][NextRank]_vars

-----------------------------------------------------------------------------
(* Properties of deduplicate_items *)

\* the position of reference x in the list s
PosIn(s, x) == CHOOSE k \in 1..Len(s) : s[k] = x

\* the places <<g, m>> of the groups gs that hold reference x
PlacesOf(gs, x) ==
    {p \in (1..Len(gs)) \X (1..MaxItems + 1) :
        p[2] <= Len(gs[p[1]]) /\ gs[p[1]][p[2]] = x}

Members(gs) == UNION {Range(gs[g]) : g \in 1..Len(gs)}

\* C1: every input item lies in exactly one group, exactly once; the groups
\* hold input items only; one item is returned per group, a member of it.
C1_Partition ==
    runs >= 1 =>
        /\ \A k \in 1..Len(input) : Cardinality(PlacesOf(groups, input[k])) = 1
        /\ Members(groups) \subseteq Range(input)
        /\ Len(result) = Len(groups)
        /\ \A g \in 1..Len(groups) : result[g] \in Range(groups[g])

C1_Witness ==
    /\ runs = 1
    /\ Len(input) = 3
    /\ Len(groups) = 2
    /\ \E g \in 1..Len(groups) : Len(groups[g]) = 2

\* C2: the representative's score (missing = 0) is >= the score of every
\* member of its group, and among the members of maximal score it is the
\* one that comes first in the input.
C2_BestScoreEarliest ==
    runs >= 1 =>
        \A g \in 1..Len(groups) : \A m \in Range(groups[g]) :
            /\ ScoreOf(items[result[g]]) >= ScoreOf(items[m])
            /\ ScoreOf(items[result[g]]) = ScoreOf(items[m])
                 => PosIn(input, result[g]) <= PosIn(input, m)

C2_Witness ==
    /\ runs = 1
    /\ \E g \in 1..Len(groups) :
          /\ Len(groups[g]) = 3
          /\ result[g] # groups[g][1]
          /\ items[groups[g][1]].score = None
          /\ \E m \in Range(groups[g]) :
                m # result[g] /\ ScoreOf(items[m]) = ScoreOf(items[result[g]])

\* item.get("also_on", [])
AlsoOnValue(it) == IF it.also_on = None THEN <<>> ELSE it.also_on[1]

\* the distinct elements of s in first-seen order
RECURSIVE Distinct(_)
Distinct(s) ==
    IF s = <<>> THEN <<>>
    ELSE LET init == SubSeq(s, 1, Len(s) - 1)
         IN IF s[Len(s)] \in Range(init) THEN Distinct(init)
            ELSE Append(Distinct(init), s[Len(s)])

\* the sources (present, non-empty) of the members of g other than rep, in
\* input order, without rep's own source, each once
OtherSources(g, rep) ==
    LET inOrder == [k \in 1..Len(g) |-> items[g[k]].source]
        others == [k \in 1..Len(g) |->
                     IF g[k] = rep \/ inOrder[k] = "" \/ inOrder[k] = items[rep].source
                     THEN <<>> ELSE <<inOrder[k]>>]
    IN Distinct(Concat(others))

AllHaveSource(g) == \A m \in Range(g) : items[m].source # ""

\* C3: for every group of more than one item (stated here for the groups
\* whose members all carry a source) the representative's also_on is the
\* list of distinct sources of the other members, without the
\* representative's own source, in first-seen input order.
C3_AlsoOnDistinctInOrder ==
    runs = 1 =>
        \A g \in 1..Len(groups) :
            (Len(groups[g]) > 1 /\ AllHaveSource(groups[g])) =>
                AlsoOnValue(items[result[g]]) = OtherSources(groups[g], result[g])

\* C4 as stated: a second run on the returned list returns the same set of
\* items.
C4_Idempotent ==
    runs = 2 => Range(result) = Range(prevResult)

\* every representative of the first run was the seed of its group
RepsWereSeeds ==
    \A g \in 1..Len(prevGroups) : prevResult[g] = prevGroups[g][1]

\* C4 amended: when every representative of the first run is the seed of
\* its group, the second run returns the list the first run returned.
C4_IdempotentWhenRepsAreSeeds ==
    (runs = 2 /\ RepsWereSeeds) => result = prevResult

C4_Witness ==
    /\ runs = 2
    /\ RepsWereSeeds
    /\ Len(prevResult) = 2
    /\ \E g \in 1..Len(prevGroups) : Len(prevGroups[g]) = 2
    /\ result = prevResult

SameGroup(a, b) == \E g \in 1..Len(groups) : {a, b} \subseteq Range(groups[g])

\* C5 as stated: any two input items are in the same group exactly when
\* their titles' similarity is at or above the threshold.
C5_PairwiseGrouping ==
    runs = 1 =>
        \A a, b \in Range(input) :
            a # b =>
                (SameGroup(a, b) <=>
                    is_duplicate(items[a].title, items[b].title, threshold))

\* the members of the groups before group g
ConsumedBefore(g) == UNION {Range(groups[h]) : h \in 1..(g - 1)}

\* C5 amended: an item that no earlier group consumed is in group g exactly
\* when it is g's seed or its title's similarity with the seed's title is
\* at or above the threshold.
C5_GroupedWithSeed ==
    runs = 1 =>
        \A g \in 1..Len(groups) : \A x \in Range(input) \ ConsumedBefore(g) :
            x \in Range(groups[g]) <=>
                \/ x = groups[g][1]
                \/ is_duplicate(items[groups[g][1]].title, items[x].title, threshold)

\* two groups were formed and two items whose titles are duplicates of each
\* other lie in different groups
C5_Witness ==
    /\ runs = 1
    /\ Len(groups) = 2
    /\ \E a, b \in Range(input) :
          /\ a # b
          /\ ~SameGroup(a, b)
          /\ is_duplicate(items[a].title, items[b].title, threshold)

\* C6: the representatives are returned in the order in which the seeds of
\* their groups appear in the input.
C6_GroupDiscoveryOrder ==
    runs >= 1 =>
        /\ Len(result) = Len(groups)
        /\ \A g, h \in 1..Len(groups) :
              /\ result[g] \in Range(groups[g])
              /\ \A m \in Range(groups[g]) :
                    PosIn(input, groups[g][1]) <= PosIn(input, m)
              /\ g < h <=> PosIn(input, groups[g][1]) < PosIn(input, groups[h][1])

\* two groups are returned and the later group's representative precedes
\* the earlier group's representative in the input
C6_Witness ==
    /\ runs = 1
    /\ Len(groups) = 2
    /\ PosIn(input, result[2]) < PosIn(input, result[1])

AloneInGroup(x) == \E g \in 1..Len(groups) : groups[g] = <<x>>

\* C23: the similarity of a title that normalizes to the empty string with
\* any title is 0, and for a threshold above 0 an item with such a title is
\* the sole member of its group, also beside an item of the same title.
C23_EmptyTitleNeverMerged ==
    runs = 1 =>
        \A a \in Range(input) :
            normalize_title(items[a].title) = <<>> =>
                /\ \A b \in Range(input) :
                      /\ similarity_score(items[a].title, items[b].title)[1] = 0
                      /\ similarity_score(items[b].title, items[a].title)[1] = 0
                /\ threshold[1] > 0 => AloneInGroup(a)

\* three items of the same stop-word title, each in a group of its own
C23_Witness ==
    /\ runs = 1
    /\ threshold = <<1, 100>>
    /\ Len(input) = 3
    /\ \A k \in 1..3 : items[k].title = <<"T","h","e">>
    /\ Len(groups) = 3

\* C28: two input items of the same title, one that does not normalize to
\* the empty string, are in the same group, whatever the threshold (not
\* above 1) and the items before and between them.
C28_IdenticalTitlesGrouped ==
    runs = 1 =>
        \A a, b \in Range(input) :
            (items[a].title = items[b].title
                /\ normalize_title(items[a].title) # <<>>)
                => SameGroup(a, b)

\* at threshold 1 the first and the third item share a title and a group,
\* the item between them is in another
C28_Witness ==
    /\ runs = 1
    /\ threshold = <<1, 1>>
    /\ Len(input) = 3
    /\ items[1].title = items[3].title
    /\ items[2].title # items[1].title
    /\ SameGroup(1, 3)
    /\ ~SameGroup(1, 2)

\* the members of group g that carry a source
WithSource(heap, g) == {m \in Range(g) : heap[m].source # ""}

\* C29: a call changes no field of any item except also_on, and also_on
\* only of the representative of a group of more than one item of which at
\* least two carry a source; an item that is a group of its own is not
\* changed; the list passed is the list the caller holds afterwards.
C29_OnlyAlsoOnWritten ==
    [][runs' = runs + 1 =>
        /\ Len(items') = Len(items)
        /\ input' = (IF runs = 0 THEN [k \in 1..Len(items) |-> k] ELSE result)
        /\ \A k \in 1..Len(items) :
              /\ items'[k].title = items[k].title
              /\ items'[k].source = items[k].source
              /\ items'[k].score = items[k].score
              /\ items'[k].also_on # items[k].also_on =>
                    \E g \in 1..Len(groups') :
                        /\ result'[g] = k
                        /\ Len(groups'[g]) > 1
                        /\ Cardinality(WithSource(items, groups'[g])) >= 2
              /\ (\E g \in 1..Len(groups') : groups'[g] = <<k>>) =>
                    items'[k] = items[k]]_vars

\* a group of two whose representative got also_on, beside an item that is
\* a group of its own
C29_Witness ==
    /\ runs = 1
    /\ Len(groups) = 2
    /\ Len(groups[1]) = 2
    /\ items[result[1]].also_on # None
    /\ \E m \in Range(groups[1]) : items[m].also_on = None
    /\ items[groups[2][1]].also_on = None

\* the example list was deduplicated at the given threshold
ExampleRun(th) == runs = 1 /\ items = ExampleItems /\ threshold = th

\* the outcome the example describes: two groups, the Google item alone, the
\* TechCrunch item (score 150) returned for the other
ExampleOutcome ==
    /\ Len(groups) = 2
    /\ \E g \in 1..2 : groups[g] = <<3>> /\ result[g] = 3
    /\ \E g \in 1..2 : Range(groups[g]) = {1, 2} /\ result[g] = 1

\* C21: for the three example items and threshold 0.8, deduplicate_items
\* yields 2 groups: the Google item alone, and the Cursor item with score
\* 150 as representative with also_on equal to ["The Verge"].
C21_ExampleYieldsTwoGroups ==
    (runs = 1 /\ input = <<1, 2, 3>> /\ threshold = <<4, 5>>
        /\ [k \in 1..3 |-> [title |-> items[k].title, source |-> items[k].source,
                            score |-> items[k].score]]
           = [k \in 1..3 |-> [title |-> ExampleItems[k].title,
                              source |-> ExampleItems[k].source,
                              score |-> ExampleItems[k].score]])
        => /\ ExampleOutcome
           /\ items[1].also_on = Some(<<"The Verge">>)

\* what the code does with the example: the two Cursor titles have
\* similarity 54/72 = 0.75, below 0.8, and every item is a group of its own
C21_ExampleYieldsThreeGroups ==
    ExampleRun(<<4, 5>>) =>
        /\ similarity_score(TitleTechCrunch, TitleTheVerge) = <<54, 72>>
        /\ groups = << <<1>>, <<2>>, <<3>> >>
        /\ result = <<1, 2, 3>>

\* the score the claim gives an item that has no score key
ClaimedScore(raw) ==
    IF raw.points \notin {None, Some(0)} THEN raw.points[1]
    ELSE IF raw.trending_score \notin {None, Some(0)} THEN raw.trending_score[1]
    ELSE 0

\* C30: deduplicate_across_sources gives every item a score before grouping
\* (a score key present is kept; else points if non-zero, else
\* trending_score if non-zero, else 0); the list deduplicated is the
\* concatenation of the source lists in argument order, and every item of
\* every source list is in exactly one group, once.
C30_ScoresThenGroupsAll ==
    (runs = 1 /\ a_lists # <<>>) =>
        LET n == Len(items)
        IN /\ n = Len(Concat(a_lists))
           /\ input = [k \in 1..n |-> k]
           /\ \A l \in 1..Len(a_lists) : \A m \in 1..Len(a_lists[l]) :
                 LET k == Len(Concat(SubSeq(a_lists, 1, l - 1))) + m
                     raw == a_lists[l][m]
                 IN /\ items[k].title = raw.title
                    /\ items[k].points = raw.points
                    /\ items[k].trending_score = raw.trending_score
                    /\ items[k].score =
                          (IF raw.score # None THEN raw.score
                           ELSE Some(ClaimedScore(raw)))
                    /\ Cardinality(PlacesOf(groups, k)) = 1
           /\ Members(groups) = 1..n

\* two source lists of one item each: the first keeps its score 0 although
\* it has points, the second has points 0 and gets its trending_score; they
\* are merged and the second is returned
C30_Witness ==
    /\ runs = 1
    /\ Len(a_lists) = 2
    /\ Len(a_lists[1]) = 1 /\ Len(a_lists[2]) = 1
    /\ a_lists[1][1].score = Some(0) /\ a_lists[1][1].points = Some(5)
    /\ a_lists[2][1].score = None /\ a_lists[2][1].points = Some(0)
    /\ items[1].score = Some(0)
    /\ items[2].score = Some(7)
    /\ groups = << <<1, 2>> >>
    /\ result = <<2>>

\* the category the categorizer gives the item as it was before the call
CategoryFor(item) ==
    IF ci_kind = "general"
    THEN categorize(IF "title" \in DOMAIN item THEN item["title"] ELSE <<>>,
                    IF "type" \in DOMAIN item THEN Some(item["type"]) ELSE None)
    ELSE categorize_policy(IF "title" \in DOMAIN item THEN item["title"] ELSE <<>>,
                           Some(IF "summary" \in DOMAIN item /\ item["summary"] # <<>>
                                THEN item["summary"]
                                ELSE IF "description" \in DOMAIN item
                                     THEN item["description"] ELSE <<>>))

\* C26: categorize_item, categorize_policy_item and their list forms set or
\* overwrite only the category of an item: no key is removed, every key
\* other than category keeps its value, and the list forms return the same
\* items in the same order and number as the list passed.
C26_OnlyCategoryWritten ==
    ci_form # "none" =>
        /\ Len(ci_heap) = Len(ci_before)
        /\ \A k \in 1..Len(ci_heap) :
              /\ DOMAIN ci_before[k] \subseteq DOMAIN ci_heap[k]
              /\ DOMAIN ci_heap[k] \subseteq DOMAIN ci_before[k] \cup {"category"}
              /\ \A key \in DOMAIN ci_before[k] \ {"category"} :
                    ci_heap[k][key] = ci_before[k][key]
        /\ \A k \in Range(ci_out) :
              /\ "category" \in DOMAIN ci_heap[k]
              /\ ci_heap[k]["category"] = CategoryFor(ci_before[k])
        /\ ci_form = "list" => ci_out = ci_list

\* a list of two items in reverse order, one with a category to overwrite
C26_Witness ==
    /\ ci_form = "list"
    /\ ci_list = <<2, 1>>
    /\ ci_out = <<2, 1>>
    /\ "category" \in DOMAIN ci_before[1] /\ ci_before[1]["category"] = "OLD"
    /\ "category" \notin DOMAIN ci_before[2]
    /\ ci_heap[1]["category"] # "OLD"
    /\ ci_heap[1]["url"] = "u" /\ ci_heap[1]["source"] = "s"

\* the entries a fetch collects: returned by the search, for an article
\* with a URL, and the first with their URL or id
Eligible(k) ==
    IF k_kind = "articles"
    THEN k_feed[k].key # "" /\ ~(k_feed[k].published.form = "aware"
                                  /\ k_now - k_feed[k].published.at > 24 * k_days_back)
    ELSE TRUE

Collected ==
    { k \in 1..Len(k_feed) :
        Eligible(k) /\ \A j \in 1..(k - 1) : Eligible(j) => k_feed[j].key # k_feed[k].key }

TrendingScore(k) == k_scores[k][1]

\* k comes before j in the ranking: a greater score, or the same score and
\* collected earlier
RanksBefore(k, j) ==
    \/ TrendingScore(k) > TrendingScore(j)
    \/ TrendingScore(k) = TrendingScore(j) /\ k < j

\* C25: fetch_trending_articles and fetch_trending_videos return the items
\* in non-increasing order of trending_score, items of the same score in
\* the order they were collected, and the list returned is the first top_n
\* items of that ranking: no item left out ranks before an item returned.
C25_DescendingStableTopN ==
    (k_pc = "done" /\ k_kind \in {"articles", "videos"}) =>
        \A collected \in {Collected} :
            /\ Range(k_out) \subseteq collected
            /\ Len(k_out) = Min(k_top_n, Cardinality(collected))
            /\ \A i, j \in 1..Len(k_out) : i < j =>
                  /\ TrendingScore(k_out[i]) >= TrendingScore(k_out[j])
                  /\ RanksBefore(k_out[i], k_out[j])
            /\ \A k \in collected \ Range(k_out) : \A o \in Range(k_out) :
                  /\ TrendingScore(k) <= TrendingScore(o)
                  /\ RanksBefore(o, k)

\* three entries, the second with the URL of the first: the first and the
\* third are collected and have the same score, and with top_n = 1 the
\* first is returned
C25_Witness ==
    /\ k_pc = "done"
    /\ k_kind = "articles"
    /\ k_top_n = 1
    /\ Len(k_feed) = 3
    /\ k_feed[2].key = k_feed[1].key
    /\ Collected = {1, 3}
    /\ TrendingScore(1) = TrendingScore(3)
    /\ TrendingScore(1) > 0
    /\ k_out = <<1>>

Undated(k) == k_feed[k].published.form = "absent"

\* C27: in the lists of articles and of blog posts returned, no item without
\* a published timestamp stands before an item that has one.
C27_UndatedNeverAhead ==
    (k_pc = "done" /\ k_kind \in {"articles", "blogs"}) =>
        \A i, j \in 1..Len(k_out) :
            i < j => ~(Undated(k_out[i]) /\ ~Undated(k_out[j]))

\* what holds of the blog posts: an undated post is behind every dated one
C27_UndatedBlogPostsLast ==
    (k_pc = "done" /\ k_kind = "blogs") =>
        \A i, j \in 1..Len(k_out) :
            i < j => ~(Undated(k_out[i]) /\ ~Undated(k_out[j]))

-----------------------------------------------------------------------------
(* Properties of filter_by_relevance *)

Raised == f_reply.kind \in {"raise_before_call", "raise", "null"}

EnabledSwitchOff ==
    f_env.enabled \in {Some("false"), Some("1")}

ApiKeyAbsent == f_env.api_key \in {None, Some("")}

\* C7: with the switch off, the dependency missing, the API key absent, or
\* an exception raised by the call or by the handling of its response, the
\* list returned is the input list, and is not empty for a non-empty input.
C7_FallbackReturnsInput ==
    (f_pc = "done" /\ (EnabledSwitchOff \/ ~f_env.has_openai \/ ApiKeyAbsent \/ Raised))
        => /\ f_result = f_items
           /\ f_items # <<>> => f_result # <<>>

C7_Witness ==
    /\ f_pc = "done"
    /\ f_reply.kind = "raise"
    /\ f_calls = 1
    /\ Len(f_items) = 3
    /\ f_result = f_items

\* the replies that are the sentinel, up to case and surrounding blanks
SentinelForms ==
    { <<"N","O","N","E">>, <<"n","o","n","e">>, <<" ","N","o","n","e"," ">> }

GotSentinel == f_reply.kind = "content" /\ f_reply.content \in SentinelForms

\* C8: for a non-empty input the list returned is empty exactly when the
\* service's reply is the sentinel NONE.
C8_EmptyOnlyOnSentinel ==
    (f_pc = "done" /\ f_items # <<>>) => (f_result = <<>> <=> GotSentinel)

C8_Witness ==
    /\ f_pc = "done"
    /\ Len(f_items) = 2
    /\ f_reply.kind = "content"
    /\ f_reply.content = <<"n","o","n","e">>
    /\ f_result = <<>>

\* the parts of the reply, split at the commas, blanks dropped
ReplyParts == SplitComma(RemoveSpaces(Strip(f_reply.content)), <<>>)

\* no part of the reply is an integer of 1..len(items)
NoPartInRange ==
    \A k \in 1..Len(ReplyParts) :
        \/ ParseInt(ReplyParts[k]) = None
        \/ ParseInt(ReplyParts[k])[1] \notin 1..Len(f_items)

\* C9: a reply that is not the sentinel and has no part that parses to an
\* index of 1..len(items) makes the filter return the whole input list.
C9_UnparsableReturnsInput ==
    (f_pc = "done" /\ f_reply.kind = "content" /\ ~GotSentinel /\ NoPartInRange)
        => f_result = f_items /\ f_result # <<>>

\* a reply of numbers that are all out of range
C9_Witness ==
    /\ f_pc = "done"
    /\ Len(f_items) = 2
    /\ f_reply.kind = "content"
    /\ f_reply.content = <<"3", ",", "0">>
    /\ f_result = f_items

\* s is a sub-list of t: its elements are elements of t, in t's order, each
\* at most once (the references of t are distinct)
IsSubList(s, t) ==
    /\ Range(s) \subseteq Range(t)
    /\ \A j, k \in 1..Len(s) : j < k => PosIn(t, s[j]) < PosIn(t, s[k])

\* C10: the list returned holds items of the input, none more often than
\* the input holds it, in the input's relative order; the items' attributes
\* are not changed.
C10_OrderedSubList ==
    f_pc = "done" =>
        /\ IsSubList(f_result, f_items)
        /\ items = [k \in 1..Len(items) |-> DefaultItem]

\* the early returns of lines 53-65 were all passed
PassedGuards ==
    /\ ~EnabledSwitchOff
    /\ f_items # <<>>
    /\ f_env.has_openai
    /\ ~ApiKeyAbsent

\* C11 as stated: every invocation makes exactly one outbound call.
C11_ExactlyOneCall ==
    f_pc = "done" => f_calls = 1

\* C11 amended: an invocation makes at most one outbound call, also after a
\* failure; it makes one exactly when no early return was taken and nothing
\* raised before the request was sent.
C11_AtMostOneCall ==
    /\ f_calls <= 1
    /\ f_pc = "done" =>
          (f_calls = 1 <=> (PassedGuards /\ f_reply.kind # "raise_before_call"))

C11_Witness ==
    /\ f_pc = "done"
    /\ f_reply.kind = "raise"
    /\ f_calls = 1
    /\ Len(f_items) = 2
    /\ f_env.enabled = None

\* a part of the reply that reads as an integer of 1..len(items)
ValidPart(part) ==
    ParseInt(part) # None /\ ParseInt(part)[1] \in 1..Len(f_items)

\* the 1-based positions the reply names, in the order of its parts; parts
\* that are no integer or lie outside 1..len(items) are left out
RemainingPositions ==
    LET kept == SelectSeq(ReplyParts, ValidPart)
    IN [k \in 1..Len(kept) |-> ParseInt(kept[k])[1]]

\* C24 as stated: for any reply that is not the sentinel, the items
\* returned are exactly the items at the positions that remain.
C24_SelectsRemaining ==
    (f_pc = "done" /\ f_reply.kind = "content" /\ ~GotSentinel)
        => Range(f_result) = { f_items[p] : p \in Range(RemainingPositions) }

\* C24: for a reply that is not the sentinel and names at least one position
\* of 1..len(items), the list returned holds the item at each remaining
\* position, one per remaining part and in the order of the parts; parts
\* that are no integer, 0, negative or above len(items) are left out.
C24_SelectsRemainingWhenAny ==
    (f_pc = "done" /\ f_reply.kind = "content" /\ ~GotSentinel
        /\ RemainingPositions # <<>>)
        => f_result = [k \in 1..Len(RemainingPositions) |->
                          f_items[RemainingPositions[k]]]

\* a reply mixing a text part and a valid number
C24_Witness ==
    /\ f_pc = "done"
    /\ Len(f_items) = 2
    /\ f_reply.kind = "content"
    /\ f_reply.content = <<"x", ",", "2">>
    /\ f_result = <<f_items[2]>>

-----------------------------------------------------------------------------
(* Properties of categorize and categorize_policy *)

RuleTable == IF c_kind = "general" THEN CATEGORIES ELSE POLICY_CATEGORIES

Fallback == IF c_kind = "general" THEN "NEWS" ELSE "GENERAL"

Vocabulary == {RuleTable[k].name : k \in 1..Len(RuleTable)}

\* the text the caller handed over: the title, and for the policy rule set
\* the title followed by the secondary text
GivenText ==
    IF c_kind = "policy" /\ c_content # None
    THEN LowerText(c_title) \o LowerText(c_content[1])
    ELSE LowerText(c_title)

\* the table positions of the categories one of whose patterns matches
MatchingCategories ==
    {k \in 1..Len(RuleTable) : CategoryMatches(RuleTable[k], GivenText)}

\* C14: categorize and categorize_policy always return a label of their
\* vocabulary, never null, and return the fallback category only when no
\* other category's pattern matches the text.
C14_FallbackOnlyWhenNoMatch ==
    c_label # None =>
        /\ c_label[1] \in Vocabulary
        /\ c_label[1] = Fallback => MatchingCategories = {}

\* the part of C14 that holds: the label is always one of the vocabulary
C14_LabelInVocabulary ==
    c_label # None => c_label[1] \in Vocabulary

\* C15: when at least one category's patterns match the text, the label is
\* the matching category with the lowest priority number, the first declared
\* among those sharing that number.
C15_LowestPriorityMatch ==
    (c_label # None /\ MatchingCategories # {}) =>
        \E k \in MatchingCategories :
            /\ RuleTable[k].name = c_label[1]
            /\ \A j \in MatchingCategories :
                  \/ RuleTable[k].priority < RuleTable[j].priority
                  \/ RuleTable[k].priority = RuleTable[j].priority /\ k <= j

\* C15 holds of every call with a title: there the matching loop is reached
C15_LowestPriorityMatchWhenTitled ==
    c_title # <<>> => C15_LowestPriorityMatch

\* the hint lookup table of the claim, case-insensitive
HintTable(hint) ==
    IF hint \in {Some("release"), Some("Release")} THEN "RELEASE"
    ELSE IF hint \in {Some("discussion"), Some("post"), Some("POST")} THEN "DISCUSSION"
    ELSE "NEWS"

\* C16: for every title no category's patterns match, the empty title
\* included, categorize returns the category the hint lookup table assigns to
\* the hint, and NEWS only when the hint is absent or not in the table.
C16_HintDecidesWhenNoMatch ==
    (c_kind = "general" /\ c_label # None /\ MatchingCategories = {}) =>
        c_label[1] = HintTable(c_hint)

\* C16 holds of every title that is not empty
C16_HintDecidesWhenTitled ==
    c_title # <<>> => C16_HintDecidesWhenNoMatch

-----------------------------------------------------------------------------
(* Properties of the trending scorers *)

ArticleScoredAt(o) == s_kind = "article" /\ o # None /\ o[1].res.kind = "score"

\* hours since publication at the hour of an outcome
HoursSincePublished(o) == o[1].now - s_published.at

\* C17: the article score is max(0, 168 - hours_since_published) times the
\* authority multiplier: with the multiplier fixed it does not increase as
\* the hours increase, it is 0 from 168 hours on, and it is never negative.
C17_ArticleScore ==
    ArticleScoredAt(s_out) =>
        /\ s_out[1].res.value >= 0
        /\ s_published.form = "aware" =>
              LET h == HoursSincePublished(s_out)
                  m == authority_multiplier(s_source)
              IN /\ s_out[1].res.value = (IF h < 168 THEN (168 - h) * m ELSE 0)
                 /\ h >= 168 => s_out[1].res.value = 0
                 /\ ArticleScoredAt(s_prev) =>
                       /\ HoursSincePublished(s_prev) <= h
                       /\ s_out[1].res.value <= s_prev[1].res.value

\* an article scored inside the window and then again after it has closed
C17_Witness ==
    /\ ArticleScoredAt(s_out)
    /\ ArticleScoredAt(s_prev)
    /\ s_published.form = "aware"
    /\ authority_multiplier(s_source) = 14
    /\ HoursSincePublished(s_prev) = 167
    /\ s_prev[1].res.value = 14
    /\ HoursSincePublished(s_out) = 169
    /\ s_out[1].res.value = 0

\* the timestamp of the scored item resolves to a publish time
Resolvable == s_published.form = "aware"

\* C18: the scorers never raise: an absent, unparseable or otherwise
\* malformed timestamp is scored as maximally old (0 for an article, the
\* multiplier 0.3 for a video) and the score is a non-negative number.
C18_NeverRaises ==
    s_out # None =>
        /\ s_out[1].res.kind = "score"
        /\ s_out[1].res.value >= 0
        /\ ~Resolvable =>
              s_out[1].res.value =
                  (IF s_kind = "article" THEN 0 ELSE engagement_score(s_stats) * 3)

\* the part of C18 that holds: a timestamp that is absent, not a text or not
\* an ISO date is scored as maximally old
C18_DegradesWhenCaught ==
    (s_out # None /\ s_published.form \in {"absent", "not_text", "unparseable"}) =>
        /\ s_out[1].res.kind = "score"
        /\ s_out[1].res.value =
              (IF s_kind = "article" THEN 0 ELSE engagement_score(s_stats) * 3)

VideoScoredAt(o) == s_kind = "video" /\ o # None /\ o[1].res.kind = "score"

\* whole days of age at the hour of an outcome; a timestamp that does not
\* parse counts as seven days old
WholeDaysOld(o) ==
    IF Resolvable THEN HoursSincePublished(o) \div 24 ELSE 7

\* C19: the video score is (views + 10*likes + 5*comments) times
\* max(0.3, 1.0 - 0.1*days_old): the multiplier loses 0.1 per whole day and
\* never drops below 0.3, so positive engagement never scores 0.
C19_VideoScore ==
    VideoScoredAt(s_out) =>
        LET d == WholeDaysOld(s_out)
            e == s_stats.views + 10 * s_stats.likes + 5 * s_stats.comments
            m == IF 10 - d > 3 THEN 10 - d ELSE 3
        IN /\ s_out[1].res.value = e * m
           /\ 10 * s_out[1].res.value >= 3 * 10 * e
           /\ e > 0 => s_out[1].res.value > 0
           /\ (VideoScoredAt(s_prev) /\ WholeDaysOld(s_prev) = d - 1 /\ d \in 1..7) =>
                 s_prev[1].res.value - s_out[1].res.value = e

\* a video with engagement scored on its seventh day and again on its ninth
C19_Witness ==
    /\ VideoScoredAt(s_out)
    /\ VideoScoredAt(s_prev)
    /\ Resolvable
    /\ s_stats = [views |-> 100, likes |-> 1, comments |-> 1]
    /\ WholeDaysOld(s_prev) = 6
    /\ s_prev[1].res.value = 115 * 4
    /\ WholeDaysOld(s_out) = 8
    /\ s_out[1].res.value = 115 * 3

-----------------------------------------------------------------------------
(* Properties of a run of the orchestrator *)

Pools == {"articles", "blogs"}

Ended == r_pc \in {"done", "exit1"}

\* the stages run so far on a pool, in order
StagesOf(pool) ==
    LET es == SelectSeq(r_trace, LAMBDA e : e.pool = pool)
    IN [k \in 1..Len(es) |-> es[k].stage]

StageRank(stage) ==
    CASE stage \in {"score", "sort"} -> 1
      [] stage = "categorize" -> 2
      [] stage = "filter" -> 3
      [] stage = "truncate" -> 4
      [] stage = "deliver" -> 5
      [] OTHER -> 0

\* the stages a pool with delivered items has passed
FullPass(pool) ==
    <<IF pool = "articles" THEN "score" ELSE "sort", "categorize">>
    \o (IF r_filtering THEN <<"filter">> ELSE <<>>)
    \o <<"truncate", "deliver">>

C13_DisplayLimits ==
    r_pc \in {"deliver", "done", "exit1"} =>
        /\ Len(r_lists.articles) <= r_config.top_articles
        /\ Len(r_lists.blogs) <= r_config.top_blogs
        /\ IsPrefix(r_lists.articles, r_filtered.articles)
        /\ IsPrefix(r_lists.blogs, r_filtered.blogs)

\* the filter fell back to its whole input, a pool of fetch_pool_size
\* articles, more than are displayed
C13_Witness ==
    /\ r_pc = "done"
    /\ r_filtering
    /\ r_config.fetch_pool_size = 3
    /\ r_config.top_articles = 2
    /\ r_filtered.articles = <<1, 2, 3>>
    /\ r_lists.articles = <<1, 2>>
    /\ r_filtered.blogs = <<3, 1>>
    /\ r_config.top_blogs = 1
    /\ r_lists.blogs = <<3>>

Steps == <<"releases", "videos", "articles", "blogs", "filter", "deliver">>

\* the step after a step of main
StepAfter(step) ==
    LET k == CHOOSE j \in 1..Len(Steps) : Steps[j] = step
    IN IF k < Len(Steps) THEN {Steps[k + 1]} ELSE {"done", "exit1"}

FailingSourceContributesNothing ==
    /\ r_pc \in Range(Steps) \cup {"done", "exit1"}
    /\ \A source \in r_failed : r_lists[source] = <<>>
    /\ IsPrefix(r_queried, SelectedSources(r_args))
    /\ r_pc \in {"filter", "deliver", "done", "exit1"} =>
          r_queried = SelectedSources(r_args)
    /\ Ended => "deliver" \in Range(StagesOf("articles"))

\* C20: a source that raises contributes an empty list, the sources after it
\* are still queried in sequence, and the run goes on, step by step, to the
\* filter/truncate step and to delivery.
C20_FailingSourceDoesNotAbort ==
    /\ []FailingSourceContributesNothing
    /\ [][r_pc' \in StepAfter(r_pc)]_vars

\* a run in which the first three sources raised and the last did not
C20_Witness ==
    /\ r_pc = "done"
    /\ r_failed = {"releases", "videos", "articles"}
    /\ r_queried = <<"releases", "videos", "articles", "blogs">>
    /\ r_lists.blogs = <<1, 2>>
    /\ StagesOf("blogs") = <<"sort", "categorize", "truncate", "deliver">>

====
